---- MODULE Spec2Model ----
(***************************************************************************)
(* The server-side VFS gateway of meeseOS: path model, mountpoint          *)
(* registry, segment resolver, permission gate, system adapter and the     *)
(* request dispatcher (backend/server/src/vfs.js, utils/vfs.js and         *)
(* adapters/vfs/system.js).                                                *)
(*                                                                         *)
(* Strings the code takes apart (addresses, mount names, real paths) are   *)
(* sequences of one-character strings, so that split, substring and the    *)
(* regular expressions of the code are computed and not assumed.           *)
(***************************************************************************)
EXTENDS Integers, Sequences, FiniteSets, TLC

(***************************************************************************)
(* Bounds of the model.                                                    *)
(***************************************************************************)
\* longest uploaded byte sequence
MaxLen == 1
\* number of gateway requests in one behaviour
MaxRequests == 2
\* longest groups list of a mount / of a user drawn by the gate specification
MaxGroups == 2
\* longest path of an address given to sanitize alone
MaxPath == 5
\* longest upload of two writefile calls racing on one path
MaxChunk == 2
\* most temporary files of one request
MaxFiles == 2
\* most members of an options object a client sends
MaxKeys == 1
\* most calls of Packages.launch
MaxLaunches == 6

(***************************************************************************)
(* Strings as sequences of characters.                                     *)
(***************************************************************************)
Letters ==
  {"a", "b", "c", "d", "e", "f", "g", "h", "i", "j", "k", "l", "m", "n", "o",
   "p", "q", "r", "s", "t", "u", "v", "w", "x", "y", "z"}
Digits == {"0", "1"}
\* \w of a JavaScript regular expression
WordChars == Letters \cup Digits \cup {"_"}

RECURSIVE IndexOf(_, _, _)
\* String.prototype.indexOf(c) from position i (1-based); 0 when absent
IndexOf(s, c, i) ==
  IF i > Len(s) THEN 0
  ELSE IF s[i] = c THEN i
  ELSE IndexOf(s, c, i + 1)

\* s.substring(n) with n a 0-based offset
Substring(s, n) == IF n >= Len(s) THEN <<>> ELSE SubSeq(s, n + 1, Len(s))

RECURSIVE Split(_, _)
\* s.split(c): the pieces between the occurrences of c (always at least one)
Split(s, c) ==
  LET i == IndexOf(s, c, 1)
  IN  IF i = 0 THEN <<s>>
      ELSE <<SubSeq(s, 1, i - 1)>> \o Split(SubSeq(s, i + 1, Len(s)), c)

RECURSIVE Join(_, _)
\* parts.join(c)
Join(parts, c) ==
  IF Len(parts) = 0 THEN <<>>
  ELSE IF Len(parts) = 1 THEN parts[1]
  ELSE parts[1] \o <<c>> \o Join(Tail(parts), c)

RECURSIVE CollapseSlashes(_)
\* s.replace(/\/+/g, "/")
CollapseSlashes(s) ==
  IF Len(s) < 2 THEN s
  ELSE IF s[1] = "/" /\ s[2] = "/" THEN CollapseSlashes(Tail(s))
  ELSE <<s[1]>> \o CollapseSlashes(Tail(s))

RECURSIVE SpanOf(_, _, _)
\* length of the longest prefix of s from position i made of characters of set
SpanOf(s, set, i) ==
  IF i > Len(s) \/ s[i] \notin set THEN 0 ELSE 1 + SpanOf(s, set, i + 1)

RECURSIVE Filter(_, _)
\* s with the characters of set removed
Filter(s, set) ==
  IF s = <<>> THEN <<>>
  ELSE IF s[1] \in set THEN Filter(Tail(s), set)
  ELSE <<s[1]>> \o Filter(Tail(s), set)

RECURSIVE StripTrailing(_, _)
\* s without its longest suffix made of characters of set
StripTrailing(s, set) ==
  IF s # <<>> /\ s[Len(s)] \in set
  THEN StripTrailing(SubSeq(s, 1, Len(s) - 1), set)
  ELSE s

RECURSIVE FindSub(_, _, _)
\* position (1-based) of the first occurrence of pat in s at or after i; 0 when absent
FindSub(s, pat, i) ==
  IF i + Len(pat) - 1 > Len(s) THEN 0
  ELSE IF SubSeq(s, i, i + Len(pat) - 1) = pat THEN i
  ELSE FindSub(s, pat, i + 1)

\* s.replace(pat, val) with a string pattern: the first occurrence only
ReplaceFirst(s, pat, val) ==
  LET i == FindSub(s, pat, 1)
  IN  IF i = 0 THEN s
      ELSE SubSeq(s, 1, i - 1) \o val \o SubSeq(s, i + Len(pat), Len(s))

(***************************************************************************)
(* Path model (utils/vfs.js).                                              *)
(***************************************************************************)
\* getPrefix: String(path).split(":")[0]
getPrefix(path) == Split(path, ":")[1]

\* the characters sanitize-filename removes (its illegalRe)
IllegalChars == {"/", "?", "<", ">", "\\", ":", "*", "|", "\""}
\* the names sanitize-filename empties (its windowsReservedRe, lower case)
WindowsReserved ==
  {<<"c", "o", "n">>, <<"p", "r", "n">>, <<"a", "u", "x">>, <<"n", "u", "l">>}
    \cup {<<"c", "o", "m", d>> : d \in Digits}
    \cup {<<"l", "p", "t", d>> : d \in Digits}

\* sanitize-filename with the empty replacement: illegal characters, then a
\* name made of dots only, then a reserved device name, then trailing dots
\* and spaces (names here stay far below its 255 byte truncation)
sanitizeFilename(seg) ==
  LET s1 == Filter(seg, IllegalChars)
      s2 == IF s1 # <<>> /\ SpanOf(s1, {"."}, 1) = Len(s1) THEN <<>> ELSE s1
      s3 == IF Split(s2, ".")[1] \in WindowsReserved THEN <<>> ELSE s2
  IN  StripTrailing(s3, {".", " "})

\* the two captures of path.replace(/\/+/g, "/").match(/^([\w-_]+):+(.*)/)
\* ok is FALSE when the expression does not match
matchAddress(path) ==
  LET s == CollapseSlashes(path)
      n == SpanOf(s, WordChars \cup {"-"}, 1)
      k == SpanOf(s, {":"}, n + 1)
  IN  IF n = 0 \/ k = 0
      THEN [ok |-> FALSE, name |-> <<>>, str |-> <<>>]
      ELSE [ok |-> TRUE, name |-> SubSeq(s, 1, n), str |-> Substring(s, n + k)]

\* sanitize of one address; ok is FALSE where the code throws a TypeError
\* (str is undefined when the address has no prefix)
sanitize(path) ==
  LET m == matchAddress(path)
      segs == Split(m.str, "/")
      sane == CollapseSlashes(
                Join([i \in 1..Len(segs) |-> sanitizeFilename(segs[i])], "/"))
  IN  IF m.ok THEN [ok |-> TRUE, val |-> m.name \o <<":">> \o sane]
      ELSE [ok |-> FALSE, val |-> <<>>]

\* sanitize of an array: path.map((singlePath) => sanitize(singlePath))
sanitizeAll(paths) == [i \in DOMAIN paths |-> sanitize(paths[i])]

(***************************************************************************)
(* Segment resolver and real paths (adapters/vfs/system.js).               *)
(***************************************************************************)
\* process.cwd()
Cwd == <<"/", "w">>
\* core.config("vfs.root", process.cwd())
VfsRoot == <<"/", "v">>

SegRoot == <<"r", "o", "o", "t">>
SegVfs == <<"v", "f", "s">>
SegUsername == <<"u", "s", "e", "r", "n", "a", "m", "e">>

\* getSegment: the value of a known segment, "" for an unknown one
getSegment(session, seg) ==
  IF seg = SegRoot THEN Cwd
  ELSE IF seg = SegVfs THEN VfsRoot
  ELSE IF seg = SegUsername THEN session.username
  ELSE <<>>

RECURSIVE matchSegmentsFrom(_, _)
\* str.match(/(\{\w+\})/g) || [], scanning from position i
matchSegmentsFrom(str, i) ==
  IF i > Len(str) THEN <<>>
  ELSE IF str[i] = "{"
    THEN LET n == SpanOf(str, WordChars, i + 1)
         IN  IF n > 0 /\ i + n + 1 <= Len(str) /\ str[i + n + 1] = "}"
             THEN <<SubSeq(str, i, i + n + 1)>> \o matchSegmentsFrom(str, i + n + 2)
             ELSE matchSegmentsFrom(str, i + 1)
    ELSE matchSegmentsFrom(str, i + 1)

matchSegments(str) == matchSegmentsFrom(str, 1)

RECURSIVE reduceSegments(_, _, _)
reduceSegments(session, found, result) ==
  IF found = <<>> THEN result
  ELSE reduceSegments(session, Tail(found),
         ReplaceFirst(result, found[1],
           getSegment(session, Filter(found[1], {"{", "}"}))))

\* resolveSegments: every {token} of str replaced by its value
resolveSegments(session, str) ==
  reduceSegments(session, matchSegments(str), str)

RECURSIVE normalizeParts(_, _, _)
\* the segment stack of path.posix.normalize: "" and "." dropped, ".." pops
normalizeParts(parts, acc, isAbs) ==
  IF parts = <<>> THEN acc
  ELSE LET p == parts[1]
       IN  IF p = <<>> \/ p = <<".">> THEN normalizeParts(Tail(parts), acc, isAbs)
           ELSE IF p = <<".", ".">>
             THEN IF acc # <<>> /\ acc[Len(acc)] # <<".", ".">>
                  THEN normalizeParts(Tail(parts), SubSeq(acc, 1, Len(acc) - 1), isAbs)
                  ELSE IF isAbs THEN normalizeParts(Tail(parts), acc, isAbs)
                  ELSE normalizeParts(Tail(parts), Append(acc, p), isAbs)
           ELSE normalizeParts(Tail(parts), Append(acc, p), isAbs)

\* path.posix.normalize
pathNormalize(p) ==
  IF p = <<>> THEN <<".">>
  ELSE LET isAbs == p[1] = "/"
           trailing == p[Len(p)] = "/"
           body == Join(normalizeParts(Split(p, "/"), <<>>, isAbs), "/")
           b1 == IF body = <<>> /\ ~isAbs THEN <<".">> ELSE body
           b2 == IF b1 # <<>> /\ trailing THEN b1 \o <<"/">> ELSE b1
       IN  IF isAbs THEN <<"/">> \o b2 ELSE b2

\* path.join(a, b): the non-empty arguments joined by "/" and normalized
pathJoin(a, b) ==
  IF a = <<>> THEN pathNormalize(b)
  ELSE IF b = <<>> THEN pathNormalize(a)
  ELSE pathNormalize(a \o <<"/">> \o b)

\* getRealPath(core, session, mount, file)
getRealPath(session, mount, file) ==
  LET root == resolveSegments(session, mount.attributes.root)
      str == Substring(file, Len(mount.root) - 1)
  IN  pathJoin(root, str)

(***************************************************************************)
(* Permission gate (utils/vfs.js).                                         *)
(*                                                                         *)
(* An entry of a mount's groups list is a plain string or a                *)
(* {method: [groups...]} map: [isString, str, map], map a function from    *)
(* method names to lists of group names.  A parameter or attribute that    *)
(* may be left out is "undefined", "true" or "false".                      *)
(***************************************************************************)
NoMap == [m \in {} |-> <<>>]
Named(g) == [isString |-> TRUE, str |-> g, map |-> NoMap]
MethodMap(f) == [isString |-> FALSE, str |-> "", map |-> f]

\* createError(code, message): code is the numeric code (0: none), errno the
\* string code of a native error; the message is kind, subject and method
createError(code, kind, subject, method) ==
  [code |-> code, errno |-> "", kind |-> kind, subject |-> subject, method |-> method]

NoError == createError(0, "", <<>>, "")
Forbidden == 403

\* arr.every(f) / arr.some(f) with f = (g) => compare.indexOf(g) !== -1
InCompare(g, compare) == \E j \in 1..Len(compare) : compare[j] = g
Every(arr, compare) == \A i \in 1..Len(arr) : InCompare(arr[i], compare)
Some(arr, compare) == \E i \in 1..Len(arr) : InCompare(arr[i], compare)

\* a validateAll that asks for every group whatever strict is
validateAllEvery(arr, compare, strict) == Every(arr, compare)

\* validateAll(arr, compare, strict = true)
validateAll(arr, compare, strict) ==
  IF strict = "undefined" \/ strict = "true"
  THEN Every(arr, compare)
  ELSE Some(arr, compare)

\* groups.filter((g) => typeof g === "string")
namedGroupsOf(groups) ==
  LET F[i \in 0..Len(groups)] ==
        IF i = 0 THEN <<>>
        ELSE IF groups[i].isString THEN Append(F[i - 1], groups[i].str)
        ELSE F[i - 1]
  IN  F[Len(groups)]

\* validateNamedGroups(groups, userGroups, strict)
validateNamedGroups(groups, userGroups, strict) ==
  LET namedGroups == namedGroupsOf(groups)
  IN  IF Len(namedGroups) > 0
      THEN validateAll(namedGroups, userGroups, strict)
      ELSE TRUE

\* index of groups.find((g) => typeof g === "string" ? false : method in g),
\* 0 when find returns undefined
findMethodGroups(groups, method) ==
  LET hits == {i \in 1..Len(groups) :
                  ~groups[i].isString /\ method \in DOMAIN groups[i].map}
  IN  IF hits = {} THEN 0 ELSE CHOOSE i \in hits : \A j \in hits : i <= j

\* a validateMethodGroups that leaves strict at its default
validateMethodGroupsDefault(groups, userGroups, method, strict) ==
  LET i == findMethodGroups(groups, method)
  IN  IF i # 0
      THEN validateAll(groups[i].map[method], userGroups, "undefined")
      ELSE TRUE

\* validateMethodGroups(groups, userGroups, method, strict)
validateMethodGroups(groups, userGroups, method, strict) ==
  LET i == findMethodGroups(groups, method)
  IN  IF i # 0
      THEN validateAll(groups[i].map[method], userGroups, strict)
      ELSE TRUE

\* a validateGroups for which one passing check is enough
validateGroupsEither(userGroups, method, mountpoint, strict) ==
  LET groups == IF mountpoint.attributes.hasGroups
                THEN mountpoint.attributes.groups ELSE <<>>
  IN  IF Len(groups) > 0
      THEN validateNamedGroups(groups, userGroups, strict)
           \/ validateMethodGroups(groups, userGroups, method, strict)
      ELSE TRUE

\* validateGroups(userGroups, method, mountpoint, strict)
validateGroups(userGroups, method, mountpoint, strict) ==
  LET groups == IF mountpoint.attributes.hasGroups
                THEN mountpoint.attributes.groups ELSE <<>>
  IN  IF Len(groups) > 0
      THEN LET namedValid == validateNamedGroups(groups, userGroups, strict)
               methodValid == validateMethodGroups(groups, userGroups, method, strict)
           IN  namedValid /\ methodValid
      ELSE TRUE

\* the readOnly argument: a boolean (isFn = FALSE, val) or a function of the
\* request that returns an address (isFn = TRUE, target)
ReadOnlyBool(b) == [isFn |-> FALSE, val |-> b, target |-> <<>>]
ReadOnlyFn(target) == [isFn |-> TRUE, val |-> TRUE, target |-> target]

\* checkMountpointPermission(req, res, method, readOnly, strict)({mount}):
\* ok = TRUE is Promise.resolve(true), otherwise the promise rejects with err
checkMountpointPermission(userGroups, method, readOnly, strict, mount) ==
  LET truthy == readOnly.isFn \/ readOnly.val
      failed == IF readOnly.isFn
                THEN getPrefix(readOnly.target) = mount.name
                ELSE readOnly.val
  IN  IF truthy /\ mount.attributes.readOnly /\ failed
      THEN [ok |-> FALSE,
            err |-> createError(Forbidden, "read-only", mount.name, "")]
      ELSE IF validateGroups(userGroups, method, mount, strict)
      THEN [ok |-> TRUE, err |-> NoError]
      ELSE [ok |-> FALSE,
            err |-> createError(Forbidden, "denied", mount.name, method)]

(***************************************************************************)
(* Mountpoint registry: the configuration core.make("meeseOS/vfs") holds.  *)
(* Three mounts: h (default adapter, strict named groups), x (adapter      *)
(* "other", lenient groups with a method map), r (read-only, system        *)
(* adapter named explicitly).  adapter = "" is a mount without an adapter  *)
(* property.                                                               *)
(***************************************************************************)
Attributes(root, readOnly, groups, strictGroups, searchable) ==
  [root |-> root, readOnly |-> readOnly, hasGroups |-> TRUE, groups |-> groups,
   strictGroups |-> strictGroups, searchable |-> searchable,
   adapter |-> "", ranges |-> "undefined"]

MountH ==
  [name |-> <<"h">>, root |-> <<"h", ":", "/">>, adapter |-> "",
   attributes |-> Attributes(<<"{", "v", "f", "s", "}", "/", "h">>, FALSE,
                             <<Named("admin"), Named("staff")>>, "undefined",
                             "undefined")]
MountX ==
  [name |-> <<"x">>, root |-> <<"x", ":", "/">>, adapter |-> "other",
   attributes |-> [Attributes(<<"{", "v", "f", "s", "}", "/", "x">>, FALSE,
                              <<Named("admin"), Named("staff"),
                                MethodMap([m \in {"unlink"} |-> <<"admin">>])>>,
                              "false", "true")
                     EXCEPT !.adapter = "other"]]
MountR ==
  [name |-> <<"r">>, root |-> <<"r", ":", "/">>, adapter |-> "system",
   attributes |-> Attributes(<<"{", "r", "o", "o", "t", "}", "/", "r">>, TRUE,
                             <<Named("admin")>>, "true", "false")]
\* a mount on the system adapter that staff may use, with unlink and
\* writefile kept to admin by a method map
MountY ==
  [name |-> <<"y">>, root |-> <<"y", ":", "/">>, adapter |-> "",
   attributes |-> Attributes(<<"{", "v", "f", "s", "}", "/", "y">>, FALSE,
                             <<Named("staff"),
                               MethodMap([m \in {"unlink", "writefile"} |-> <<"admin">>])>>,
                             "false", "undefined")]

mountpoints == <<MountH, MountX, MountR, MountY>>

\* index of mountpoints.find((m) => m.name === prefix), 0 when undefined
findMount(prefix) ==
  LET hits == {i \in 1..Len(mountpoints) : mountpoints[i].name = prefix}
  IN  IF hits = {} THEN 0 ELSE CHOOSE i \in hits : \A j \in hits : i <= j

\* mount.adapter ? adapters[mount.adapter] : adapters.system
adapterOf(mount) == IF mount.adapter = "" THEN "system" ELSE mount.adapter

\* a resolver that answers the first mount for a prefix no mount has
mountpointResolverFirstMount(path) ==
  LET i == findMount(getPrefix(path))
      j == IF i = 0 THEN 1 ELSE i
  IN  [ok |-> TRUE, mount |-> j, adapter |-> adapterOf(mountpoints[j]),
       err |-> NoError]

\* mountpointResolver: ok = FALSE is the thrown 403
mountpointResolver(path) ==
  LET prefix == getPrefix(path)
      i == findMount(prefix)
  IN  IF i = 0
      THEN [ok |-> FALSE, mount |-> 0, adapter |-> "",
            err |-> createError(Forbidden, "mountpoint-not-found", prefix, "")]
      ELSE [ok |-> TRUE, mount |-> i, adapter |-> adapterOf(mountpoints[i]),
            err |-> NoError]

(***************************************************************************)
(* The backend: the entries below the real roots of the mounts.            *)
(***************************************************************************)
Bytes == {1, 2}
Contents == UNION {[1..n -> Bytes] : n \in 0..MaxLen}

\* an entry: nothing, a directory or a file.  data is the bytes of a file;
\* members lists, by relative path, the files below a directory and the
\* files stored in a zip archive (a file whose bytes are those of an archive)
Absent == [type |-> "none", data |-> <<>>, zip |-> FALSE, members |-> <<>>]
Dir == [type |-> "dir", data |-> <<>>, zip |-> FALSE, members |-> <<>>]
File(data) == [type |-> "file", data |-> data, zip |-> FALSE, members |-> <<>>]
DirOf(members) == [Dir EXCEPT !.members = members]
ZipOf(members) == [File(<<>>) EXCEPT !.zip = TRUE, !.members = members]
\* a file below a directory or stored in an archive: its relative path and
\* the entry (a file) it is
Member(name, entry) == [name |-> name, entry |-> entry]

\* the suffix archive() appends to the first real path of the selection
ZipSuffix == <<".", "z", "i", "p">>

RealPaths ==
  {<<"/", "v", "/", "h", "/", "a">>, <<"/", "v", "/", "h", "/", "b">>,
   <<"/", "v", "/", "x", "/", "a">>, <<"/", "v", "/", "x", "/", "b">>,
   <<"/", "w", "/", "r", "/", "a">>,
   <<"/", "v", "/", "h", "/", "a">> \o ZipSuffix,
   <<"/", "v", "/", "h", "/", "b">> \o ZipSuffix,
   <<"/", "v", "/", "h", "/", "a">> \o ZipSuffix \o ZipSuffix,
   <<"/", "v", "/", "h", "/", "b">> \o ZipSuffix \o ZipSuffix}

Entry(f, p) == IF p \in DOMAIN f THEN f[p] ELSE Absent

\* a native error of the backend, with its string code
NativeError(errno) ==
  [code |-> 0, errno |-> errno, kind |-> "native", subject |-> <<>>, method |-> ""]
\* an Error thrown without a code (a TypeError, an fs-extra check)
PlainError(kind) ==
  [code |-> 0, errno |-> "", kind |-> kind, subject |-> <<>>, method |-> ""]

(***************************************************************************)
(* The Range header (vfs.js).                                              *)
(***************************************************************************)
RECURSIVE digitsValue(_, _)
\* the decimal value of the digits of s, read after the value acc
digitsValue(s, acc) ==
  IF s = <<>> THEN acc
  ELSE digitsValue(Tail(s), 10 * acc + (IF s[1] = "1" THEN 1 ELSE 0))

\* NaN: what parseInt gives for a string that does not start with a digit
NaN == -1
\* parseInt(str, 10) of a string without sign or blanks: its leading digits
parseInt(str) ==
  LET n == SpanOf(str, Digits, 1)
  IN  IF n = 0 THEN NaN ELSE digitsValue(SubSeq(str, 1, n), 0)

\* options.range: [start, end]; hasEnd is FALSE where end is undefined,
\* given is FALSE where options has no range
NoRange == [given |-> FALSE, start |-> 0, hasEnd |-> FALSE, end |-> 0]
\* parseRangeHeader(range)
parseRangeHeader(range) ==
  LET parts == Split(ReplaceFirst(range, <<"b", "y", "t", "e", "s", "=">>, <<>>), "-")
      pstart == parts[1]
      pend == IF Len(parts) > 1 THEN parts[2] ELSE <<>>
  IN  [given |-> TRUE, start |-> parseInt(pstart),
       hasEnd |-> pend # <<>>, end |-> IF pend # <<>> THEN parseInt(pend) ELSE 0]

(***************************************************************************)
(* Results of operations: one record shape for every JavaScript value an   *)
(* operation resolves.                                                     *)
(***************************************************************************)
Value(type, b, n, bytes) ==
  [type |-> type, b |-> b, n |-> n, bytes |-> bytes, str |-> <<>>,
   isFile |-> FALSE, isDirectory |-> FALSE]
Undefined == Value("undefined", FALSE, 0, <<>>)
BoolValue(b) == Value("boolean", b, 0, <<>>)
NumberValue(n) == Value("number", FALSE, n, <<>>)
StreamValue(bytes) == Value("stream", FALSE, 0, bytes)
\* an array of n elements, and the empty array
ListValue(n) == Value("array", FALSE, n, <<>>)
ArrayValue == ListValue(0)
ObjectValue == Value("object", FALSE, 0, <<>>)
StringValue(str) == [Value("string", FALSE, 0, <<>>) EXCEPT !.str = str]
\* createStat of createFileIter: n is size
StatValue(e, file) ==
  [Value("stat", FALSE, Len(e.data), <<>>) EXCEPT
     !.isFile = (e.type = "file"), !.isDirectory = (e.type = "dir"), !.str = file]

\* an adapter call's answer: resolved value or rejection, and the backend after
Resolve(f, v) == [ok |-> TRUE, val |-> v, err |-> NoError, fs |-> f]
Reject(f, e) == [ok |-> FALSE, val |-> Undefined, err |-> e, fs |-> f]

(***************************************************************************)
(* System adapter (adapters/vfs/system.js) over the backend f.  Every      *)
(* operation takes the real path getRealPath computed.  The fs-extra       *)
(* calls behind them (access, stat, readdir, mkdir, remove, ensureFile,    *)
(* copy, rename) follow the library's documented results.                  *)
(***************************************************************************)
\* capabilities
adapterCapabilities(f, p) == Resolve(f, ObjectValue)

\* realpath
adapterRealpath(f, p) == Resolve(f, StringValue(p))

\* exists: wrapper("access", ...) resolves true or false, never rejects
adapterExists(f, p) == Resolve(f, BoolValue(Entry(f, p).type # "none"))

\* stat: fs.access, then createFileIter(core, dirname(realPath), realPath)
adapterStat(f, p) ==
  IF Entry(f, p).type = "none" THEN Reject(f, NativeError("ENOENT"))
  ELSE Resolve(f, StatValue(Entry(f, p), p))

\* the names fs.readdir lists for a directory: the first segment of the
\* relative path of every file below it
childNames(e) == {Split(e.members[i].name, "/")[1] : i \in DOMAIN e.members}

\* readdir: fs.readdir, then createFileIter for every name
adapterReaddir(f, p) ==
  CASE Entry(f, p).type = "none" -> Reject(f, NativeError("ENOENT"))
    [] Entry(f, p).type = "file" -> Reject(f, NativeError("ENOTDIR"))
    [] OTHER -> Resolve(f, ListValue(Cardinality(childNames(Entry(f, p)))))

\* readfile: fs.stat, false for what is not a file, else a read stream
adapterReadfile(f, p) ==
  CASE Entry(f, p).type = "none" -> Reject(f, NativeError("ENOENT"))
    [] Entry(f, p).type = "dir" -> Resolve(f, BoolValue(FALSE))
    [] OTHER -> Resolve(f, StreamValue(Entry(f, p).data))

\* what fs.createReadStream(realPath, {start, end}) streams of data: all of
\* it without a range, else the bytes from start to end (to the last byte
\* when end is undefined or beyond it), both counted from 0
streamed(data, range) ==
  IF ~range.given THEN data
  ELSE LET last == IF range.hasEnd /\ range.end + 1 < Len(data)
                   THEN range.end + 1 ELSE Len(data)
       IN  SubSeq(data, range.start + 1, last)

\* readfile with options.range; createReadStream throws for a start that is
\* no number or lies behind end
adapterReadfileRange(f, p, range) ==
  CASE Entry(f, p).type = "none" -> Reject(f, NativeError("ENOENT"))
    [] Entry(f, p).type = "dir" -> Resolve(f, BoolValue(FALSE))
    [] range.given /\ (range.start = NaN
                       \/ (range.hasEnd /\ (range.end = NaN \/ range.start > range.end))) ->
         Reject(f, PlainError("ERR_OUT_OF_RANGE"))
    [] OTHER -> Resolve(f, StreamValue(streamed(Entry(f, p).data, range)))

\* mkdir: wrapper("mkdir", ...) with the options.ensure escape for EEXIST
adapterMkdir(f, p, ensure) ==
  IF Entry(f, p).type # "none"
  THEN IF ensure THEN Resolve(f, BoolValue(TRUE))
       ELSE Reject(f, NativeError("EEXIST"))
  ELSE IF p \notin DOMAIN f THEN Reject(f, NativeError("ENOENT"))
  ELSE Resolve([f EXCEPT ![p] = Dir], BoolValue(TRUE))

\* unlink: wrapper("remove"): removes what is there, no error when absent
adapterUnlink(f, p) ==
  IF p \in DOMAIN f THEN Resolve([f EXCEPT ![p] = Absent], BoolValue(TRUE))
  ELSE Resolve(f, BoolValue(TRUE))

\* touch: wrapper("ensureFile"): keeps a file, creates an empty one, fails
\* on a directory
adapterTouch(f, p) ==
  CASE Entry(f, p).type = "file" -> Resolve(f, BoolValue(TRUE))
    [] Entry(f, p).type = "dir" -> Reject(f, NativeError("EISDIR"))
    [] OTHER -> IF p \in DOMAIN f
                THEN Resolve([f EXCEPT ![p] = File(<<>>)], BoolValue(TRUE))
                ELSE Reject(f, NativeError("ENOENT"))

\* search: filehound below realPath, here with a pattern every file name
\* matches; backend failures degrade to no files
adapterSearch(f, p) ==
  Resolve(f, ListValue(IF Entry(f, p).type = "dir" THEN Len(Entry(f, p).members)
                       ELSE 0))

\* rename: crossWrapper("rename") = fs.rename(realSource, realDest)
adapterRename(f, s, d) ==
  LET src == Entry(f, s)
      dst == Entry(f, d)
  IN  CASE src.type = "none" -> Reject(f, NativeError("ENOENT"))
        [] d \notin DOMAIN f -> Reject(f, NativeError("ENOENT"))
        [] s = d -> Resolve(f, BoolValue(TRUE))
        [] src.type = "file" /\ dst.type = "dir" -> Reject(f, NativeError("EISDIR"))
        [] src.type = "dir" /\ dst.type = "file" -> Reject(f, NativeError("ENOTDIR"))
        [] OTHER -> Resolve([f EXCEPT ![d] = src, ![s] = Absent], BoolValue(TRUE))

\* copy: crossWrapper("copy") = fs-extra copy(realSource, realDest)
adapterCopy(f, s, d) ==
  LET src == Entry(f, s)
      dst == Entry(f, d)
  IN  CASE src.type = "none" -> Reject(f, NativeError("ENOENT"))
        [] d \notin DOMAIN f -> Reject(f, NativeError("ENOENT"))
        [] s = d -> Reject(f, PlainError("same-source-and-destination"))
        [] src.type = "file" /\ dst.type = "dir" ->
             Reject(f, PlainError("cannot-overwrite-directory"))
        [] src.type = "dir" /\ dst.type = "file" ->
             Reject(f, PlainError("cannot-overwrite-non-directory"))
        [] OTHER -> Resolve([f EXCEPT ![d] = src], BoolValue(TRUE))

\* path.parse(p).dir / path.dirname(p) of an absolute path
pathDirname(p) ==
  LET parts == Split(p, "/")
  IN  Join(SubSeq(parts, 1, Len(parts) - 1), "/")

RECURSIVE withoutName(_, _)
\* the members of ms that are not called name
withoutName(ms, name) ==
  IF ms = <<>> THEN <<>>
  ELSE IF ms[1].name = name THEN withoutName(Tail(ms), name)
  ELSE <<ms[1]>> \o withoutName(Tail(ms), name)

RECURSIVE putAll(_, _)
\* the files below a directory once every member of new has been written
\* into it, a later one over an earlier one of the same name
putAll(ms, new) ==
  IF new = <<>> THEN ms
  ELSE putAll(Append(withoutName(ms, new[1].name), new[1]), Tail(new))

\* addToArchive, lines 176-221: the members added for the entry at realPath:
\* the file itself (addFileToArchive), or every file below a directory
\* (addDirToArchive), named by realPath.replace(archiveRoot, "")
archiveMembers(f, realPath, zipPath) ==
  LET archiveRoot == pathDirname(zipPath) \o <<"/">>
      destination == ReplaceFirst(realPath, archiveRoot, <<>>)
      e == Entry(f, realPath)
  IN  IF e.type = "dir"
      THEN [i \in 1..Len(e.members) |->
              Member(destination \o <<"/">> \o e.members[i].name,
                     e.members[i].entry)]
      ELSE <<Member(destination, e)>>

RECURSIVE compressFrom(_, _, _, _, _)
\* archive, lines 503-504: addToArchive for every real path from the i-th on;
\* fs.stat of addToArchive fails for an entry that does not exist
compressFrom(f, realPaths, zipPath, i, acc) ==
  IF i > Len(realPaths) THEN [ok |-> TRUE, members |-> acc, err |-> NoError]
  ELSE IF Entry(f, realPaths[i]).type = "none"
    THEN [ok |-> FALSE, members |-> acc, err |-> NativeError("ENOENT")]
    ELSE compressFrom(f, realPaths, zipPath, i + 1,
                      acc \o archiveMembers(f, realPaths[i], zipPath))

\* realPath.split(".").slice(0, -1).join(".") of archive, line 524
extractTarget(realPath) ==
  LET parts == Split(realPath, ".")
  IN  Join(SubSeq(parts, 1, Len(parts) - 1), ".")

\* extract(zipPath, {dir: target}) of extract-zip: the target must be
\* absolute, then mkdir(target, {recursive: true}), then the archive is
\* opened and every member written below the target
extractZip(f, zipPath, target) ==
  IF target = <<>> \/ target[1] # "/"
  THEN Reject(f, PlainError("target-not-absolute"))
  ELSE IF Entry(f, target).type = "file" THEN Reject(f, NativeError("EEXIST"))
  ELSE LET made == IF target \in DOMAIN f /\ f[target].type = "none"
                   THEN [f EXCEPT ![target] = Dir] ELSE f
           z == Entry(made, zipPath)
       IN  CASE z.type = "none" -> Reject(made, NativeError("ENOENT"))
             [] z.type = "dir" -> Reject(made, NativeError("EISDIR"))
             [] ~z.zip -> Reject(made, PlainError("not-a-zip"))
             [] OTHER ->
                  Resolve(IF target \in DOMAIN made
                          THEN [made EXCEPT ![target] =
                                  DirOf(putAll(@.members, z.members))]
                          ELSE made,
                          BoolValue(TRUE))

RECURSIVE extractFrom(_, _, _)
\* archive, lines 521-527: extract for every real path from the i-th on, one
\* after the other; the first failure ends the loop
extractFrom(f, realPaths, i) ==
  IF i > Len(realPaths) THEN Resolve(f, BoolValue(TRUE))
  ELSE LET a == extractZip(f, realPaths[i], extractTarget(realPaths[i]))
       IN  IF a.ok THEN extractFrom(a.fs, realPaths, i + 1) ELSE a

\* error: the stream has emitted "error"
NoPending ==
  [active |-> FALSE, opened |-> FALSE, path |-> <<>>, data |-> <<>>,
   zip |-> FALSE, members |-> <<>>, unlink |-> FALSE, error |-> FALSE]
\* fs.createWriteStream(realPath) with the data that will be piped into it
WriteStream(p, data) ==
  [NoPending EXCEPT !.active = TRUE, !.path = p, !.data = data]
\* archive, lines 494-499 and 510: the write stream of the zip with the
\* members yazl pipes into it after zipfile.end(); unlink: archive, line 514
\* has called fs.unlink of the zip, which nothing waits for
ZipStream(p, members, unlink) ==
  [NoPending EXCEPT !.active = TRUE, !.path = p, !.zip = TRUE,
                    !.members = members, !.unlink = unlink]

\* an answer of archive: the adapter call's answer and the write stream it
\* leaves behind
Archived(a, w) ==
  [ok |-> a.ok, val |-> a.val, err |-> a.err, fs |-> a.fs, pending |-> w]

\* an archive that compresses whatever the action is
adapterArchiveAlwaysCompress(f, realPaths, action) ==
  LET zipPath == realPaths[1] \o ZipSuffix
      c == compressFrom(f, realPaths, zipPath, 1, <<>>)
  IN  IF c.ok
      THEN Archived(Resolve(f, BoolValue(TRUE)), ZipStream(zipPath, c.members, FALSE))
      ELSE Archived(Reject(f, c.err), ZipStream(zipPath, c.members, TRUE))

\* archive, lines 484-541
adapterArchive(f, realPaths, action) ==
  LET act == IF action = "" THEN "compress" ELSE action
      zipPath == realPaths[1] \o ZipSuffix
      c == compressFrom(f, realPaths, zipPath, 1, <<>>)
  IN  CASE act = "compress" ->
             IF c.ok
             THEN Archived(Resolve(f, BoolValue(TRUE)),
                           ZipStream(zipPath, c.members, FALSE))
             ELSE Archived(Reject(f, c.err), ZipStream(zipPath, c.members, TRUE))
        [] act = "extract" -> Archived(extractFrom(f, realPaths, 1), NoPending)
        [] OTHER ->
             Archived(Reject(f, [PlainError("unknown-archive-action")
                                   EXCEPT !.method = action]),
                      NoPending)

(***************************************************************************)
(* Requests: the inputs of the gateway.                                    *)
(***************************************************************************)
\* req.session.user of the authenticated request
Users ==
  {[username |-> <<"n">>, groups |-> <<>>],
   [username |-> <<"s">>, groups |-> <<"staff">>],
   [username |-> <<"u">>, groups |-> <<"admin", "staff">>]}

\* addresses as clients send them (before sanitize)
Addresses ==
  {<<"h", ":", "/", "a">>, <<"h", ":", "/", "/", "b">>,
   <<"x", ":", "/", "a">>, <<"x", ":", ":", "/", "b", "?">>,
   <<"r", ":", "/", "a">>, <<"z", ":", "/", "a">>, <<"/", "a">>}

\* Range headers as clients send them ("" when the request has none)
RangeHeaders ==
  {<<>>} \cup
  {<<"b", "y", "t", "e", "s", "=">> \o r :
     r \in {<<"0", "-", "0">>, <<"0", "-", "1">>, <<"1", "-">>}}

\* selections as clients send them to /archive, and the actions they ask for
Selections ==
  {<<<<"h", ":", "/", "a">>>>,
   <<<<"h", ":", "/", "a">> \o ZipSuffix>>,
   <<<<"h", ":", "/", "b">> \o ZipSuffix>>,
   <<<<"h", ":", "/", "b">>>>,
   <<<<"h", ":", "/", "a">>, <<"h", ":", "/", "b">>>>,
   <<<<"x", ":", "/", "a">>>>}
ArchiveActions == {"compress", "extract", "other"}

\* the single-target routes of vfs() with their readOnly flag and the cross routes
ReadMethods ==
  {"capabilities", "realpath", "exists", "stat", "readdir", "readfile", "search"}
WriteMethods == {"writefile", "mkdir", "unlink", "touch"}
SingleMethods == ReadMethods \cup WriteMethods
CrossMethods == {"copy", "rename"}

\* a routing table that passes readOnly = true for writefile alone
readOnlyOfWritefileOnly(method) == method = "writefile"

\* the readOnly argument vfs() gives createRequest for a method
readOnlyOf(method) == method \in WriteMethods

\* respondNumber / respondBoolean and the respond argument of vfs()
respondNumber(v) == IF v.type = "number" THEN v ELSE NumberValue(-1)
respondBoolean(v) ==
  IF v.type = "boolean" THEN v
  ELSE BoolValue(v.type \in {"stream", "array", "object", "stat"}
                 \/ (v.type = "number" /\ v.n # 0)
                 \/ (v.type = "string" /\ v.str # <<>>))
respond(method, v) ==
  CASE method = "writefile" -> respondNumber(v)
    [] method \in {"exists", "mkdir", "unlink", "touch"} -> respondBoolean(v)
    [] OTHER -> v

\* createOptions(req): the options handed to the adapter: the fields the
\* client sent (ensure, action), the parsed Range header (header is "" when
\* the request has none) and the session
createOptions(ensure, action, header, user) ==
  [ensure |-> ensure, action |-> action,
   range |-> IF header # <<>> THEN parseRangeHeader(header) ELSE NoRange,
   session |-> user]

\* attributes.strictGroups !== false
strictOf(mount) ==
  IF mount.attributes.strictGroups # "false" THEN "true" ELSE "false"

VARIABLES
  fs,       \* the backend: real path -> entry
  pending,  \* the write stream that has not finished: its file and its data
  nreq,     \* requests started so far
  pc,       \* position of the request in flight in its handler
  req,      \* the request in flight
  found,    \* the resolved mounts (index into mountpoints, 0: none)
  passed,   \* all permission checks of the request have succeeded
  calls,    \* adapter methods invoked by the request, in order
  stream,   \* what readfile of the source resolved (copy/rename fallback)
  result,   \* what the adapter method resolved
  outcome,  \* how the request settled
  gin,      \* a function applied alone: the arguments of the call
  gout,     \* a function applied alone: the function called and what it returned
  writers,  \* two writefile calls on one path alone: the path and how far each is
  tmp,      \* the temporary files of the request in flight (req.files), the
            \* warnings of the finalizer and the status that was answered
  launcher  \* Packages of the client: the running list, the application and
            \* the launch calls made

gateway ==
  <<fs, pending, nreq, pc, req, found, passed, calls, stream, result, outcome,
    writers, tmp, launcher>>
gate == <<gin, gout, writers, tmp, launcher>>
vars ==
  <<fs, pending, nreq, pc, req, found, passed, calls, stream, result, outcome,
    gin, gout, writers, tmp, launcher>>

NoRequest ==
  [method |-> "", user |-> [username |-> <<>>, groups |-> <<>>],
   ok |-> FALSE, target |-> <<>>, dest |-> <<>>,
   upload |-> <<>>, selection |-> <<>>, files |-> <<>>,
   options |-> createOptions(FALSE, "", <<>>, [username |-> <<>>, groups |-> <<>>])]
\* the status and the headers of the answer: Content-Type (type),
\* Accept-Ranges with Content-Range "bytes start-end/size" (ranged) and
\* Content-Length (length, -1 when the handler sets none)
NoHead ==
  [type |-> FALSE, ranged |-> FALSE, length |-> -1, start |-> 0, end |-> 0,
   size |-> 0]

\* a map that knows no error code
errorCodesNone(errno) == 0

\* errorCodes[errno], 0 where the map has no such key
errorCodes(errno) ==
  CASE errno = "ENOENT" -> 404
    [] errno = "EACCES" -> 401
    [] OTHER -> 0

\* the router's error handler: the status of the answer to a rejection
errorStatus(e) ==
  IF e.code # 0 THEN e.code
  ELSE IF errorCodes(e.errno) # 0 THEN errorCodes(e.errno)
  ELSE 400

\* how the promise of the handler settled, with the answer wrapper and the
\* error handler of the router give for it
NoOutcome ==
  [state |-> "none", val |-> Undefined, err |-> NoError, status |-> 0,
   head |-> NoHead]
Resolved(v) ==
  [state |-> "resolved", val |-> v, err |-> NoError, status |-> 200,
   head |-> NoHead]
Rejected(e) ==
  [state |-> "rejected", val |-> Undefined, err |-> e, status |-> errorStatus(e),
   head |-> NoHead]
NoGateInput ==
  [userGroups |-> <<>>, method |-> "", readOnly |-> ReadOnlyBool(FALSE),
   strict |-> "undefined", mount |-> MountH]
NoGateOutput == [fn |-> "", ok |-> FALSE, err |-> NoError]

\* a call of adapter.writefile: where it stands (stat, pipe, opened, closed;
\* none for a call that has not been made), whether its promise has
\* resolved, and the data of its source
Writer(at, data) == [at |-> at, resolved |-> FALSE, val |-> FALSE, data |-> data]
NoWriters == [path |-> <<>>, w |-> <<Writer("none", <<>>), Writer("none", <<>>)>>]

\* a temporary file formidable has stored a part of the request in;
\* removable is FALSE where fs.removeSync of it throws
TempFile(removable) == [exists |-> TRUE, removable |-> removable]
NoTmp == [files |-> <<>>, warned |-> 0, answered |-> 0]

\* Packages before any launch: _running is empty (running counts the
\* entries of the package's name), no application of the package is alive,
\* launch has not been called
NoLauncher == [running |-> 0, app |-> "none", calls |-> <<>>]

Call(adapter, method, path) == [adapter |-> adapter, method |-> method, path |-> path]

InitFs ==
  [p \in RealPaths |->
     CASE p = <<"/", "v", "/", "h", "/", "a">> -> File(<<1, 2>>)
       [] p = <<"/", "v", "/", "x", "/", "a">> -> Dir
       [] p = <<"/", "w", "/", "r", "/", "a">> -> File(<<2>>)
       [] p = <<"/", "v", "/", "h", "/", "b">> \o ZipSuffix ->
            ZipOf(<<Member(<<"b">>, File(<<1>>))>>)
       [] OTHER -> Absent]

Init ==
  /\ fs = InitFs
  /\ pending = NoPending
  /\ nreq = 0
  /\ pc = "idle"
  /\ req = NoRequest
  /\ found = [src |-> 0, dest |-> 0]
  /\ passed = FALSE
  /\ calls = <<>>
  /\ stream = Undefined
  /\ result = Undefined
  /\ outcome = NoOutcome
  /\ gin = NoGateInput
  /\ gout = NoGateOutput
  /\ writers = NoWriters
  /\ tmp = NoTmp
  /\ launcher = NoLauncher

\* a new request may be issued: the client has the answer to the one before,
\* its upload has been written, and the bound is not reached
CanStart ==
  /\ pc = "idle"
  /\ ~pending.active
  /\ ~pending.unlink
  /\ nreq < MaxRequests

\* the state every handler starts from
Begin(r, nextpc) ==
  /\ nreq' = nreq + 1
  /\ req' = r
  /\ found' = [src |-> 0, dest |-> 0]
  /\ passed' = FALSE
  /\ calls' = <<>>
  /\ stream' = Undefined
  /\ result' = Undefined
  /\ IF r.ok
     THEN pc' = nextpc /\ outcome' = [NoOutcome EXCEPT !.state = "pending"]
     ELSE pc' = "done" /\ outcome' = Rejected(PlainError("TypeError"))
  /\ tmp' = [NoTmp EXCEPT !.files = r.files]
  /\ UNCHANGED <<fs, pending, gin, gout, writers, launcher>>

\* createRequestFactory, lines 220-229: options, then the getter (requestPath,
\* requestSearch or requestFile: sanitize of the target, which throws on an
\* address without a prefix), then call(...); files is req.files as the
\* middleware (lines 113-120) has set it
StartUpload(method, path, user, upload, ensure, header, files) ==
  LET t == sanitize(path)
  IN  Begin([method |-> method, user |-> user, ok |-> t.ok, target |-> t.val,
             dest |-> <<>>, upload |-> upload, selection |-> <<>>,
             files |-> files,
             options |-> createOptions(ensure, "", header, user)], "find")

\* a request whose only temporary file is its upload, if it has one
StartRequest(method, path, user, upload, ensure, header) ==
  StartUpload(method, path, user, upload, ensure, header,
              IF method = "writefile" THEN <<TempFile(TRUE)>> ELSE <<>>)

\* createCrossRequestFactory, line 241: requestCross sanitizes from and to
StartCross(method, from, to, user) ==
  LET s == sanitize(from)
      d == sanitize(to)
  IN  Begin([method |-> method, user |-> user, ok |-> s.ok /\ d.ok,
             target |-> s.val, dest |-> d.val, upload |-> <<>>,
             selection |-> <<>>, files |-> <<>>,
             options |-> createOptions(FALSE, "", <<>>, user)], "xfind1")

Settle(o) == pc' = "done" /\ outcome' = o

\* a call() that sends every search on to the permission check
FindMountpointThenCheck ==
  /\ pc = "find"
  /\ LET f == mountpointResolver(req.target)
     IN  IF ~f.ok THEN Settle(Rejected(f.err)) /\ UNCHANGED found
         ELSE /\ found' = [found EXCEPT !.src = f.mount]
              /\ pc' = "check" /\ UNCHANGED outcome
  /\ UNCHANGED <<fs, pending, nreq, req, passed, calls, stream, result, gin, gout, writers, tmp, launcher>>

\* call(), lines 163-171: findMountpoint and the search short-circuit
FindMountpoint ==
  /\ pc = "find"
  /\ LET f == mountpointResolver(req.target)
     IN  IF ~f.ok THEN Settle(Rejected(f.err)) /\ UNCHANGED found
         ELSE /\ found' = [found EXCEPT !.src = f.mount]
              /\ IF req.method = "search"
                    /\ mountpoints[f.mount].attributes.searchable = "false"
                 THEN Settle(Resolved(ArrayValue))
                 ELSE pc' = "check" /\ UNCHANGED outcome
  /\ UNCHANGED <<fs, pending, nreq, req, passed, calls, stream, result, gin, gout, writers, tmp, launcher>>

\* call(), line 173
CheckPermission ==
  /\ pc = "check"
  /\ LET mount == mountpoints[found.src]
         c == checkMountpointPermission(req.user.groups, req.method,
                ReadOnlyBool(readOnlyOf(req.method)), strictOf(mount), mount)
     IN  IF c.ok THEN pc' = "call" /\ passed' = TRUE /\ UNCHANGED outcome
         ELSE Settle(Rejected(c.err)) /\ UNCHANGED passed
  /\ UNCHANGED <<fs, pending, nreq, req, found, calls, stream, result, gin, gout, writers, tmp, launcher>>

\* the methods an adapter object has: the system adapter all of them, the
\* other adapter neither touch nor rename nor archive
adapterMethods(adapter) ==
  IF adapter = "other"
  THEN (SingleMethods \cup CrossMethods) \ {"touch", "rename"}
  ELSE SingleMethods \cup CrossMethods \cup {"archive"}

\* new Error(`Adapter does not support ${m}`)
Unsupported(m) == [PlainError("adapter-does-not-support") EXCEPT !.method = m]

\* found.adapter[m](found)(target, ...rest, options) for the methods that
\* settle in one step
invoke(method, f, p, options) ==
  CASE method = "capabilities" -> adapterCapabilities(f, p)
    [] method = "realpath" -> adapterRealpath(f, p)
    [] method = "exists" -> adapterExists(f, p)
    [] method = "stat" -> adapterStat(f, p)
    [] method = "readdir" -> adapterReaddir(f, p)
    [] method = "readfile" -> adapterReadfileRange(f, p, options.range)
    [] method = "mkdir" -> adapterMkdir(f, p, options.ensure)
    [] method = "unlink" -> adapterUnlink(f, p)
    [] method = "touch" -> adapterTouch(f, p)
    [] method = "search" -> adapterSearch(f, p)
    [] OTHER -> Reject(f, PlainError("TypeError"))

\* call(), lines 175-181 and 217: vfsMethodWrapper(method) for every method
\* but writefile, then respond
CallAdapter ==
  /\ pc = "call"
  /\ req.method \notin {"writefile", "archive"}
  /\ LET mount == mountpoints[found.src]
         adapter == adapterOf(mount)
         p == getRealPath(req.options.session, mountpoints[found.src], req.target)
     IN  IF req.method \notin adapterMethods(adapter)
         THEN /\ Settle(Rejected(Unsupported(req.method)))
              /\ UNCHANGED <<fs, calls, result>>
         ELSE LET a == invoke(req.method, fs, p, req.options)
              IN  /\ calls' = Append(calls, Call(adapter, req.method, p))
                  /\ fs' = a.fs
                  /\ result' = a.val
                  /\ IF ~a.ok THEN Settle(Rejected(a.err))
                     ELSE IF req.method = "readfile"
                     THEN pc' = "poststat" /\ UNCHANGED outcome
                     ELSE Settle(Resolved(respond(req.method, a.val)))
  /\ UNCHANGED <<pending, nreq, req, found, passed, stream, gin, gout, writers, tmp, launcher>>

\* call(), lines 175-181, for the archive route: adapter.archive with the
\* real paths of the selection, all taken in the mount that was found
Archive ==
  /\ pc = "call"
  /\ req.method = "archive"
  /\ LET mount == mountpoints[found.src]
         adapter == adapterOf(mount)
         realPaths == [i \in 1..Len(req.selection) |->
                         getRealPath(req.options.session, mountpoints[found.src],
                                     req.selection[i])]
     IN  IF "archive" \notin adapterMethods(adapter)
         THEN /\ Settle(Rejected(Unsupported("archive")))
              /\ UNCHANGED <<fs, pending, calls, result>>
         ELSE LET a == adapterArchive(fs, realPaths, req.options.action)
              IN  /\ calls' = Append(calls, Call(adapter, "archive", realPaths[1]))
                  /\ fs' = a.fs
                  /\ pending' = a.pending
                  /\ result' = a.val
                  /\ IF a.ok THEN Settle(Resolved(a.val))
                     ELSE Settle(Rejected(a.err))
  /\ UNCHANGED <<nreq, req, found, passed, stream, gin, gout, writers, tmp, launcher>>

\* call(), line 183: ranges
rangesOf(mount) ==
  mount.attributes.adapter \in {"", "system"} \/ mount.attributes.ranges = "true"

\* ranged reads switched on by the adapter the mount is bound to
rangesOfBoundAdapter(mount) ==
  adapterOf(mount) = "system" \/ mount.attributes.ranges = "true"

\* call(), lines 186-206: the headers of the answer to a readfile on mount
\* with options.range = range, stat being what the secondary stat resolved
\* ({} where it failed): those of a ranged or of a plain answer
readfileHead(mount, range, stat) ==
  LET size == stat.val.n
      realEnd == IF range.hasEnd /\ range.end \notin {0, NaN} THEN range.end
                 ELSE size - 1
  IN  IF rangesOf(mount) /\ range.given
      THEN IF stat.ok /\ size # 0
           THEN [type |-> stat.val.isFile, ranged |-> TRUE,
                 length |-> realEnd - range.start + 1,
                 start |-> range.start, end |-> realEnd, size |-> size]
           ELSE NoHead
      ELSE [NoHead EXCEPT !.type = stat.ok /\ stat.val.isFile]

\* call(), lines 182-217: the secondary stat of readfile, whose failure is
\* swallowed, the headers of a ranged or a plain answer, then the result of
\* readfile
ReadfileStat ==
  /\ pc = "poststat"
  /\ LET mount == mountpoints[found.src]
         p == getRealPath(req.options.session, mountpoints[found.src], req.target)
         stat == adapterStat(fs, p)
         head == readfileHead(mount, req.options.range, stat)
     IN  /\ calls' = Append(calls, Call(adapterOf(mount), "stat", p))
         /\ Settle([Resolved(respond(req.method, result)) EXCEPT
                     !.status = IF head.ranged THEN 206 ELSE 200,
                     !.head = head])
  /\ UNCHANGED <<fs, pending, nreq, req, found, passed, stream, result, gin, gout, writers, tmp, launcher>>

\* what settles a request once adapter.writefile has resolved v: respondNumber
\* for the writefile route; for copy the Boolean of it; rename goes on to unlink
AfterWrite(v) ==
  /\ result' = v
  /\ IF req.method = "writefile" THEN Settle(Resolved(respond(req.method, v)))
     ELSE IF req.method = "rename" THEN pc' = "xunlink" /\ UNCHANGED outcome
     ELSE Settle(Resolved(respondBoolean(v)))

\* adapter.writefile, lines 380-406, up to data.pipe(stream): fs.stat, false
\* for a directory, otherwise write(): createWriteStream starts to open the
\* file and the source is piped into it.  With a source that is no stream
\* (readfile resolved false) data.on throws: after stat resolved the .catch
\* rejects the promise, after stat failed with ENOENT the throw is inside the
\* .catch handler and the promise is never settled.
WriteStat ==
  /\ \/ pc = "call" /\ req.method = "writefile"
     \/ pc = "xwrite"
  /\ LET cross == req.method \in CrossMethods
         mount == mountpoints[IF cross THEN found.dest ELSE found.src]
         file == IF cross THEN req.dest ELSE req.target
         data == IF cross THEN stream ELSE StreamValue(req.upload)
         p == getRealPath(req.options.session, mountpoints[IF cross THEN found.dest ELSE found.src], file)
         e == Entry(fs, p)
         readable == req.files = <<>> \/ req.files[1].exists
     IN  /\ calls' = Append(calls, Call(adapterOf(mount), "writefile", p))
         /\ IF e.type = "dir"
            THEN AfterWrite(BoolValue(FALSE)) /\ UNCHANGED pending
            ELSE IF data.type # "stream"
            THEN /\ pending' = WriteStream(p, <<>>)
                 /\ UNCHANGED result
                 /\ IF e.type = "file"
                    THEN Settle(Rejected(PlainError("TypeError")))
                    ELSE pc' = "hung" /\ UNCHANGED outcome
            ELSE /\ pending' = WriteStream(p, IF readable THEN data.bytes ELSE <<>>)
                 /\ pc' = "wpipe"
                 /\ UNCHANGED <<result, outcome>>
  /\ UNCHANGED <<fs, nreq, req, found, passed, stream, gin, gout, writers, tmp, launcher>>

\* adapter.writefile, line 391: the "end" event of the source resolves true,
\* whether or not the write stream has opened the file and written what it
\* was handed; a source whose file is not there never ends
WriteEnd ==
  /\ pc = "wpipe"
  /\ IF req.files = <<>> THEN TRUE ELSE req.files[1].exists
  /\ AfterWrite(BoolValue(TRUE))
  /\ UNCHANGED <<fs, pending, nreq, req, found, passed, calls, stream, gin, gout, writers, tmp, launcher>>

\* the backend once the write stream w has opened its file and written its data
Completed(f, w) ==
  IF w.active
  THEN [f EXCEPT ![w.path] =
          IF @.type = "dir" THEN @
          ELSE IF w.zip THEN ZipOf(w.members) ELSE File(w.data)]
  ELSE f

\* the write stream w once it has nothing left to write; an unlink that was
\* called on its file may still be waiting
Finished(w) ==
  IF w.unlink THEN [NoPending EXCEPT !.unlink = TRUE, !.path = w.path]
  ELSE NoPending

\* the write stream of line 389 opens its file with flag "w": the file is
\* created or truncated
Open ==
  /\ pending.active /\ ~pending.opened
  /\ pending.path \in DOMAIN fs
  /\ fs' = [fs EXCEPT ![pending.path] = IF @.type = "dir" THEN @ ELSE File(<<>>)]
  /\ pending' = IF pending.data = <<>> /\ ~pending.zip THEN Finished(pending)
                ELSE [pending EXCEPT !.opened = TRUE]
  /\ UNCHANGED <<nreq, pc, req, found, passed, calls, stream, result, outcome,
                 gin, gout, writers, tmp, launcher>>

\* the write stream of line 389 writes the data it was handed to the file
Flush ==
  /\ pending.active /\ pending.opened
  /\ fs' = [fs EXCEPT ![pending.path] =
              IF @.type # "file" THEN @
              ELSE IF pending.zip THEN ZipOf(pending.members)
              ELSE File(pending.data)]
  /\ pending' = Finished(pending)
  /\ UNCHANGED <<nreq, pc, req, found, passed, calls, stream, result, outcome,
                 gin, gout, writers, tmp, launcher>>

\* vfs.js line 226 and adapter.writefile, line 390: the read stream of an
\* upload whose temporary file is not there emits "error", which rejects;
\* here the error is delivered once the source has been piped.  The write
\* stream is left as it is: it opens its file and is never ended.
SourceError ==
  /\ pc = "wpipe"
  /\ req.files # <<>> /\ ~req.files[1].exists
  /\ Settle(Rejected(NativeError("ENOENT")))
  /\ UNCHANGED <<fs, pending, nreq, req, found, passed, calls, stream, result,
                 gin, gout, writers, tmp, launcher>>

\* the write stream of line 389 cannot open its file, whose directory does
\* not exist: the stream emits "error".  Nothing listens for it: the error
\* is thrown as an uncaught exception, which ends the process unless the
\* host has installed a handler of its own; the source is unpiped and
\* paused and, if it has not ended yet, never ends.
OpenError ==
  /\ pending.active /\ ~pending.opened
  /\ pending.path \notin DOMAIN fs
  /\ pending' = [NoPending EXCEPT !.error = TRUE]
  /\ pc' \in IF pc = "wpipe" THEN {"hung", "crashed"} ELSE {pc, "crashed"}
  /\ UNCHANGED <<fs, nreq, req, found, passed, calls, stream, result, outcome,
                 gin, gout, writers, tmp, launcher>>

\* archive, line 514: the fs.unlink of the zip, called without waiting for
\* it, removes the file; a write stream that has the file open goes on
\* writing to what is no longer in the directory
Discard ==
  /\ pending.unlink
  /\ fs' = [fs EXCEPT ![pending.path] = Absent]
  /\ pending' = IF pending.active THEN [pending EXCEPT !.unlink = FALSE]
                ELSE NoPending
  /\ UNCHANGED <<nreq, pc, req, found, passed, calls, stream, result, outcome,
                 gin, gout, writers, tmp, launcher>>

\* createCrossRequestFactory, line 243
FindSource ==
  /\ pc = "xfind1"
  /\ LET f == mountpointResolver(req.target)
     IN  IF ~f.ok THEN Settle(Rejected(f.err)) /\ UNCHANGED found
         ELSE found' = [found EXCEPT !.src = f.mount]
              /\ pc' = "xfind2" /\ UNCHANGED outcome
  /\ UNCHANGED <<fs, pending, nreq, req, passed, calls, stream, result, gin, gout, writers, tmp, launcher>>

\* createCrossRequestFactory, line 244
FindDest ==
  /\ pc = "xfind2"
  /\ LET f == mountpointResolver(req.dest)
     IN  IF ~f.ok THEN Settle(Rejected(f.err)) /\ UNCHANGED found
         ELSE found' = [found EXCEPT !.dest = f.mount]
              /\ pc' = "xcheck1" /\ UNCHANGED outcome
  /\ UNCHANGED <<fs, pending, nreq, req, passed, calls, stream, result, gin, gout, writers, tmp, launcher>>

\* a cross handler that reads the source once the source check has passed,
\* before the destination is checked
CheckSourceThenRead ==
  /\ pc = "xcheck1"
  /\ LET mount == mountpoints[found.src]
         c == checkMountpointPermission(req.user.groups, "readfile",
                ReadOnlyBool(FALSE), strictOf(mount), mount)
     IN  IF c.ok THEN pc' = "xread" /\ UNCHANGED outcome
         ELSE Settle(Rejected(c.err))
  /\ UNCHANGED <<fs, pending, nreq, req, found, passed, calls, stream, result,
                 gin, gout, writers, tmp, launcher>>

\* createCrossRequestFactory, lines 247 and 250-256
CheckSource ==
  /\ pc = "xcheck1"
  /\ LET mount == mountpoints[found.src]
         srcStrict == strictOf(mount)
         c == checkMountpointPermission(req.user.groups, "readfile",
                ReadOnlyBool(FALSE), srcStrict, mount)
     IN  IF c.ok THEN pc' = "xcheck2" /\ UNCHANGED outcome
         ELSE Settle(Rejected(c.err))
  /\ UNCHANGED <<fs, pending, nreq, req, found, passed, calls, stream, result,
                 gin, gout, writers, tmp, launcher>>

\* a cross handler that checks the destination with the strictness of the
\* source mount
CheckDestSourceStrict ==
  /\ pc = "xcheck2"
  /\ LET mount == mountpoints[found.dest]
         srcStrict == strictOf(mountpoints[found.src])
         sameAdapter == adapterOf(mountpoints[found.src]) = adapterOf(mount)
         c == checkMountpointPermission(req.user.groups, "writefile",
                ReadOnlyBool(TRUE), srcStrict, mount)
     IN  IF c.ok
         THEN /\ passed' = TRUE
              /\ pc' = IF sameAdapter THEN "xnative" ELSE "xread"
              /\ UNCHANGED outcome
         ELSE Settle(Rejected(c.err)) /\ UNCHANGED passed
  /\ UNCHANGED <<fs, pending, nreq, req, found, calls, stream, result, gin, gout, writers, tmp, launcher>>

\* createCrossRequestFactory, lines 245, 248 and 258-266
CheckDest ==
  /\ pc = "xcheck2"
  /\ LET mount == mountpoints[found.dest]
         destStrict == strictOf(mount)
         sameAdapter == adapterOf(mountpoints[found.src]) = adapterOf(mount)
         c == checkMountpointPermission(req.user.groups, "writefile",
                ReadOnlyBool(TRUE), destStrict, mount)
     IN  IF c.ok
         THEN /\ passed' = TRUE
              /\ pc' = IF sameAdapter THEN "xnative" ELSE "xread"
              /\ UNCHANGED outcome
         ELSE Settle(Rejected(c.err)) /\ UNCHANGED passed
  /\ UNCHANGED <<fs, pending, nreq, req, found, calls, stream, result, gin, gout, writers, tmp, launcher>>

\* createCrossRequestFactory, lines 266-274: the adapter's own copy or rename,
\* called without looking whether the adapter has it: calling what is
\* undefined throws a TypeError
NativeCross ==
  /\ pc = "xnative"
  /\ LET srcMount == mountpoints[found.src]
         destMount == mountpoints[found.dest]
         realSource == getRealPath(req.options.session, mountpoints[found.src], req.target)
         realDest == getRealPath(req.options.session, mountpoints[found.dest], req.dest)
         a == IF req.method = "rename" THEN adapterRename(fs, realSource, realDest)
              ELSE adapterCopy(fs, realSource, realDest)
     IN  IF req.method \notin adapterMethods(adapterOf(srcMount))
         THEN /\ Settle(Rejected(PlainError("TypeError")))
              /\ UNCHANGED <<fs, calls, result>>
         ELSE /\ calls' = Append(calls, Call(adapterOf(srcMount), req.method, realSource))
              /\ fs' = a.fs
              /\ result' = a.val
              /\ IF a.ok THEN Settle(Resolved(respondBoolean(a.val)))
                 ELSE Settle(Rejected(a.err))
  /\ UNCHANGED <<pending, nreq, req, found, passed, stream, gin, gout, writers, tmp, launcher>>

\* createCrossRequestFactory, line 277: readfile of the source
CrossRead ==
  /\ pc = "xread"
  /\ LET mount == mountpoints[found.src]
         p == getRealPath(req.options.session, mountpoints[found.src], req.target)
         a == adapterReadfile(fs, p)
     IN  /\ calls' = Append(calls, Call(adapterOf(mount), "readfile", p))
         /\ IF a.ok THEN stream' = a.val /\ pc' = "xwrite" /\ UNCHANGED outcome
            ELSE Settle(Rejected(a.err)) /\ UNCHANGED stream
  /\ UNCHANGED <<fs, pending, nreq, req, found, passed, result, gin, gout, writers, tmp, launcher>>

\* createCrossRequestFactory, lines 285-289: rename unlinks the source
CrossUnlink ==
  /\ pc = "xunlink"
  /\ LET mount == mountpoints[found.src]
         p == getRealPath(req.options.session, mountpoints[found.src], req.target)
         a == adapterUnlink(fs, p)
     IN  /\ calls' = Append(calls, Call(adapterOf(mount), "unlink", p))
         /\ fs' = a.fs
         /\ IF a.ok THEN Settle(Resolved(respondBoolean(result)))
            ELSE Settle(Rejected(a.err))
  /\ UNCHANGED <<pending, nreq, req, found, passed, stream, result, gin, gout, writers, tmp, launcher>>

\* a finalizer that gives up at the first file it cannot remove
onDoneUntilFailure(files) ==
  LET stuck == {i \in DOMAIN files : files[i].exists /\ ~files[i].removable}
      first == IF stuck = {} THEN Len(files) + 1
               ELSE CHOOSE i \in stuck : \A j \in stuck : i <= j
  IN  [files |-> [i \in DOMAIN files |->
                    IF i < first THEN [files[i] EXCEPT !.exists = FALSE]
                    ELSE files[i]],
       warned |-> IF stuck = {} THEN 0 ELSE 1]

\* onDone, lines 70-83: every file of req.files that exists is removed; a
\* removal that throws is caught and logged, and the loop goes on
onDone(files) ==
  [files |-> [i \in DOMAIN files |->
                IF files[i].exists /\ files[i].removable
                THEN [files[i] EXCEPT !.exists = FALSE]
                ELSE files[i]],
   warned |-> Cardinality({i \in DOMAIN files :
                            files[i].exists /\ ~files[i].removable})]

\* wrapper, lines 89-103: the answer (res.json, the piped stream, or
\* next(error) and the error handler) leaves the server, then the finalizer
\* runs, and the handler's state is gone; a request whose promise never
\* settles is left behind unanswered and without the finalizer
Respond ==
  /\ pc \in {"done", "hung"}
  /\ tmp' = IF pc = "done"
            THEN [files |-> onDone(tmp.files).files,
                  warned |-> onDone(tmp.files).warned,
                  answered |-> outcome.status]
            ELSE tmp
  /\ pc' = "idle"
  /\ req' = NoRequest
  /\ found' = [src |-> 0, dest |-> 0]
  /\ passed' = FALSE
  /\ calls' = <<>>
  /\ stream' = Undefined
  /\ result' = Undefined
  /\ outcome' = NoOutcome
  /\ UNCHANGED <<fs, pending, nreq, gin, gout, writers, launcher>>

\* a request to one of the single-target routes arrives
SingleRequest ==
  /\ CanStart
  /\ \E method \in SingleMethods, path \in Addresses, user \in Users :
       \E upload \in IF method = "writefile" THEN Contents ELSE {<<>>},
          ensure \in IF method = "mkdir" THEN BOOLEAN ELSE {FALSE},
          header \in IF method = "readfile" THEN RangeHeaders ELSE {<<>>} :
         StartRequest(method, path, user, upload, ensure, header)

\* createRequestFactory, lines 220-229, for the archive route:
\* requestSelection sanitizes every address of the selection; the target is
\* the array, whose String() findMountpoint splits
StartArchive(selection, action, user) ==
  LET t == sanitizeAll(selection)
      clean == [i \in 1..Len(selection) |-> t[i].val]
  IN  Begin([method |-> "archive", user |-> user,
             ok |-> \A i \in 1..Len(selection) : t[i].ok,
             target |-> Join(clean, ","), dest |-> <<>>, upload |-> <<>>,
             selection |-> clean, files |-> <<>>,
             options |-> createOptions(FALSE, action, <<>>, user)], "find")

\* a request to /archive arrives
ArchiveRequest ==
  /\ CanStart
  /\ \E selection \in Selections, action \in ArchiveActions, user \in Users :
       StartArchive(selection, action, user)

\* a request to /copy or /rename arrives
CrossRequest ==
  /\ CanStart
  /\ \E method \in CrossMethods, from \in Addresses, to \in Addresses,
        user \in Users :
       StartCross(method, from, to, user)

Next ==
  \/ SingleRequest
  \/ CrossRequest
  \/ ArchiveRequest
  \/ FindMountpoint
  \/ CheckPermission
  \/ CallAdapter
  \/ Archive
  \/ ReadfileStat
  \/ WriteStat
  \/ WriteEnd
  \/ Open
  \/ Flush
  \/ Discard
  \/ FindSource
  \/ FindDest
  \/ CheckSource
  \/ CheckDest
  \/ NativeCross
  \/ CrossRead
  \/ CrossUnlink
  \/ Respond

Spec == Init /\ [][Next]_vars

(***************************************************************************)
(* The writefile route with every kind of upload: a target whose directory *)
(* does not exist, several temporary files of which some cannot be         *)
(* removed, an upload whose temporary file is gone.                        *)
(***************************************************************************)
\* addresses written to: a file, a directory, nothing, nothing in a
\* directory that does not exist
UploadAddresses ==
  {<<"h", ":", "/", "a">>, <<"x", ":", "/", "a">>, <<"h", ":", "/", "b">>,
   <<"h", ":", "/", "c", "/", "d">>}

\* req.files: the upload first (there and removable, there and not
\* removable, or gone), then the files of the other parts of the form
OtherFiles == UNION {[1..n -> {TempFile(TRUE), TempFile(FALSE)}] : n \in 0..(MaxFiles - 1)}
UploadFiles ==
  {<<first>> \o rest :
     first \in {TempFile(TRUE), TempFile(FALSE), [TempFile(TRUE) EXCEPT !.exists = FALSE]},
     rest \in OtherFiles}

\* the uploads: any content in the usual temporary file, or one content
\* with any temporary files
Uploads ==
  {[data |-> d, files |-> <<TempFile(TRUE)>>] : d \in Contents}
  \cup {[data |-> <<1>>, files |-> f] : f \in UploadFiles}

\* a request to /writefile arrives
UploadRequest ==
  /\ CanStart
  /\ \E path \in UploadAddresses, user \in Users, up \in Uploads :
       StartUpload("writefile", path, user, up.data, FALSE, <<>>, up.files)

UploadNext ==
  \/ UploadRequest
  \/ FindMountpoint
  \/ CheckPermission
  \/ WriteStat
  \/ WriteEnd
  \/ SourceError
  \/ Open
  \/ OpenError
  \/ Flush
  \/ Respond

UploadSpec == Init /\ [][UploadNext]_vars

(***************************************************************************)
(* The archive route with selections whose addresses name different        *)
(* mounts.                                                                 *)
(***************************************************************************)
\* selections of two addresses: of one mount, of two mounts, and with an
\* address of a mount that is not registered
MixedSelections ==
  {<<<<"h", ":", "/", "a">>, <<"h", ":", "/", "b">>>>,
   <<<<"h", ":", "/", "a">>, <<"r", ":", "/", "a">>>>,
   <<<<"h", ":", "/", "a">>, <<"z", ":", "/", "a">>>>,
   <<<<"x", ":", "/", "a">>, <<"h", ":", "/", "a">>>>}

\* a request to /archive arrives
SelectionRequest ==
  /\ CanStart
  /\ \E selection \in MixedSelections, action \in ArchiveActions, user \in Users :
       StartArchive(selection, action, user)

SelectionNext ==
  \/ SelectionRequest
  \/ FindMountpoint
  \/ CheckPermission
  \/ Archive
  \/ Open
  \/ Flush
  \/ Discard
  \/ Respond

SelectionSpec == Init /\ [][SelectionNext]_vars

(***************************************************************************)
(* The routes that create, change or remove entries, on a mount whose      *)
(* groups keep unlink and writefile to admin.                              *)
(***************************************************************************)
PolicyAddresses ==
  {<<"y", ":", "/", "a">>, <<"y", ":", "/", "b">>, <<"x", ":", "/", "b">>}

\* the backend with mount y: the file a, and b not there
PolicyPaths ==
  RealPaths \cup {<<"/", "v", "/", "y", "/", "a">>, <<"/", "v", "/", "y", "/", "b">>}
PolicyFs ==
  [p \in PolicyPaths |->
     IF p = <<"/", "v", "/", "y", "/", "a">> THEN File(<<1>>)
     ELSE IF p \in RealPaths THEN InitFs[p]
     ELSE Absent]

PolicyInit ==
  /\ fs = PolicyFs
  /\ pending = NoPending
  /\ nreq = 0
  /\ pc = "idle"
  /\ req = NoRequest
  /\ found = [src |-> 0, dest |-> 0]
  /\ passed = FALSE
  /\ calls = <<>>
  /\ stream = Undefined
  /\ result = Undefined
  /\ outcome = NoOutcome
  /\ gin = NoGateInput
  /\ gout = NoGateOutput
  /\ writers = NoWriters
  /\ tmp = NoTmp
  /\ launcher = NoLauncher
\* the users whose groups fail the check of mount y for unlink and for
\* writefile
PolicyUsers ==
  {u \in Users : \A method \in {"unlink", "writefile"} :
                   ~validateGroups(u.groups, method, MountY, strictOf(MountY))}

\* a request to /writefile, /mkdir, /unlink or /touch arrives
PolicyRequest ==
  /\ CanStart
  /\ \E method \in WriteMethods, path \in PolicyAddresses, user \in PolicyUsers :
       StartRequest(method, path, user, IF method = "writefile" THEN <<2>> ELSE <<>>,
                    FALSE, <<>>)

\* a request to /copy or /rename arrives
PolicyCross ==
  /\ CanStart
  /\ \E method \in CrossMethods, from \in PolicyAddresses, to \in PolicyAddresses,
        user \in PolicyUsers :
       StartCross(method, from, to, user)

PolicyNext ==
  \/ PolicyRequest
  \/ PolicyCross
  \/ FindMountpoint
  \/ CheckPermission
  \/ CallAdapter
  \/ WriteStat
  \/ WriteEnd
  \/ Open
  \/ Flush
  \/ FindSource
  \/ FindDest
  \/ CheckSource
  \/ CheckDest
  \/ NativeCross
  \/ CrossRead
  \/ CrossUnlink
  \/ Respond

PolicySpec == PolicyInit /\ [][PolicyNext]_vars

(***************************************************************************)
(* The permission gate alone (utils/vfs.js): the functions applied to      *)
(* arguments drawn from bounded sets.                                      *)
(***************************************************************************)
GateUserGroups == {<<>>, <<"admin">>, <<"staff">>, <<"admin", "staff">>}
GateMethods == {"readfile", "writefile", "stat"}
GateEntries ==
  {Named("admin"), Named("staff"),
   MethodMap([m \in {"readfile"} |-> <<"admin">>]),
   MethodMap([m \in {"readfile", "writefile"} |->
                IF m = "readfile" THEN <<"admin", "staff">> ELSE <<"staff">>]),
   MethodMap([m \in {"writefile"} |-> <<>>])}
GateGroupLists == UNION {[1..n -> GateEntries] : n \in 0..MaxGroups}
\* mount.attributes of the mount under check: without a groups property, or
\* with a groups list
GateAttributes ==
  {[Attributes(<<>>, ro, <<>>, "undefined", "undefined") EXCEPT !.hasGroups = FALSE] :
     ro \in BOOLEAN}
  \cup {Attributes(<<>>, ro, g, "undefined", "undefined") :
          ro \in BOOLEAN, g \in GateGroupLists}
GateMounts ==
  {[name |-> <<"g">>, root |-> <<"g", ":", "/">>, adapter |-> "", attributes |-> a] :
     a \in GateAttributes}
\* the readOnly argument: false, true, or a function of the request that
\* answers an address in the mount under check or in another mount
GateReadOnly ==
  {ReadOnlyBool(FALSE), ReadOnlyBool(TRUE),
   ReadOnlyFn(<<"g", ":", "/", "a">>), ReadOnlyFn(<<"h", ":", "/", "a">>)}
GateInputs ==
  [userGroups : GateUserGroups, method : GateMethods, readOnly : GateReadOnly,
   strict : {"undefined", "true", "false"}, mount : GateMounts]

GateInit ==
  /\ fs = InitFs
  /\ pending = NoPending
  /\ nreq = 0
  /\ pc = "idle"
  /\ req = NoRequest
  /\ found = [src |-> 0, dest |-> 0]
  /\ passed = FALSE
  /\ calls = <<>>
  /\ stream = Undefined
  /\ result = Undefined
  /\ outcome = NoOutcome
  /\ gin \in GateInputs
  /\ gout = NoGateOutput
  /\ writers = NoWriters
  /\ tmp = NoTmp
  /\ launcher = NoLauncher

Returned(fn, ok, err) == [fn |-> fn, ok |-> ok, err |-> err]

\* validateNamedGroups(groups, userGroups, strict)
ValidateNamedGroups ==
  /\ gout.fn = ""
  /\ gout' = Returned("validateNamedGroups",
                      validateNamedGroups(gin.mount.attributes.groups,
                                          gin.userGroups, gin.strict), NoError)
  /\ UNCHANGED <<gateway, gin>>

\* validateMethodGroups(groups, userGroups, method, strict)
ValidateMethodGroups ==
  /\ gout.fn = ""
  /\ gout' = Returned("validateMethodGroups",
                      validateMethodGroups(gin.mount.attributes.groups,
                                           gin.userGroups, gin.method, gin.strict),
                      NoError)
  /\ UNCHANGED <<gateway, gin>>

\* validateGroups(userGroups, method, mountpoint, strict)
ValidateGroups ==
  /\ gout.fn = ""
  /\ gout' = Returned("validateGroups",
                      validateGroups(gin.userGroups, gin.method, gin.mount,
                                     gin.strict), NoError)
  /\ UNCHANGED <<gateway, gin>>

\* checkMountpointPermission(req, res, method, readOnly, strict)({mount})
CheckMountpointPermission ==
  /\ gout.fn = ""
  /\ LET c == checkMountpointPermission(gin.userGroups, gin.method, gin.readOnly,
                                        gin.strict, gin.mount)
     IN  gout' = Returned("checkMountpointPermission", c.ok, c.err)
  /\ UNCHANGED <<gateway, gin>>

GateNext ==
  \/ ValidateNamedGroups
  \/ ValidateMethodGroups
  \/ ValidateGroups
  \/ CheckMountpointPermission

GateSpec == GateInit /\ [][GateNext]_vars

(***************************************************************************)
(* createOptions alone (vfs.js): the options field of a request as the     *)
(* client sent it, an object of a JSON body or the text of a query or form *)
(* field, with the Range header and the session of the request.            *)
(***************************************************************************)
NoUser == [username |-> <<>>, groups |-> <<>>]
\* a JavaScript value an option can have: a number, a string, an object
\* with its members in order, the parsed Range header, a session
JsUndefined ==
  [type |-> "undefined", n |-> 0, str |-> <<>>, members |-> <<>>,
   range |-> NoRange, user |-> NoUser]
JsNumber(n) == [JsUndefined EXCEPT !.type = "number", !.n = n]
JsString(str) == [JsUndefined EXCEPT !.type = "string", !.str = str]
JsObject(members) == [JsUndefined EXCEPT !.type = "object", !.members = members]
JsRange(r) == [JsUndefined EXCEPT !.type = "range", !.range = r]
JsSession(user) == [JsUndefined EXCEPT !.type = "session", !.user = user]
Prop(key, val) == [key |-> key, val |-> val]

\* what a JavaScript condition takes for true
truthy(v) ==
  CASE v.type = "undefined" -> FALSE
    [] v.type = "number" -> v.n # 0
    [] v.type = "string" -> v.str # <<>>
    [] OTHER -> TRUE

\* a parse that failed (JSON.parse throws a SyntaxError)
NoParse == [ok |-> FALSE, val |-> JsUndefined, next |-> 0]

\* JSON.parse of a string literal that starts at position i: text without
\* escapes between two quotes
parseString(s, i) ==
  IF i > Len(s) \/ s[i] # "\"" THEN NoParse
  ELSE LET j == IndexOf(s, "\"", i + 1)
       IN  IF j = 0 \/ \E k \in (i + 1)..(j - 1) : s[k] = "\\" THEN NoParse
           ELSE [ok |-> TRUE, val |-> JsString(SubSeq(s, i + 1, j - 1)),
                 next |-> j + 1]

\* JSON.parse of a number that starts at position i: digits, no leading zero
parseNumber(s, i) ==
  LET n == SpanOf(s, Digits, i)
  IN  IF n = 0 \/ (n > 1 /\ s[i] = "0") THEN NoParse
      ELSE [ok |-> TRUE, val |-> JsNumber(digitsValue(SubSeq(s, i, i + n - 1), 0)),
            next |-> i + n]

\* a string or a number at position i
parseScalar(s, i) ==
  IF i <= Len(s) /\ s[i] = "\"" THEN parseString(s, i) ELSE parseNumber(s, i)

RECURSIVE parseMembers(_, _, _)
\* the members of an object from position i on, "key":value separated by
\* commas up to the closing brace; acc holds the members read so far
parseMembers(s, i, acc) ==
  LET k == parseString(s, i)
      v == IF k.ok /\ k.next <= Len(s) /\ s[k.next] = ":"
           THEN parseScalar(s, k.next + 1) ELSE NoParse
  IN  IF ~v.ok \/ v.next > Len(s) THEN NoParse
      ELSE IF s[v.next] = "}"
        THEN [ok |-> TRUE, val |-> JsObject(Append(acc, Prop(k.val.str, v.val))),
              next |-> v.next + 1]
      ELSE IF s[v.next] = ","
        THEN parseMembers(s, v.next + 1, Append(acc, Prop(k.val.str, v.val)))
      ELSE NoParse

\* JSON.parse(s) for texts without blanks: an object whose members are
\* strings and numbers, a string or a number; ok is FALSE where it throws
JSONparse(s) ==
  LET p == IF s # <<>> /\ s[1] = "{"
           THEN IF Len(s) > 1 /\ s[2] = "}"
                THEN [ok |-> TRUE, val |-> JsObject(<<>>), next |-> 3]
                ELSE parseMembers(s, 2, <<>>)
           ELSE parseScalar(s, 1)
  IN  IF p.ok /\ p.next = Len(s) + 1 THEN p ELSE NoParse

\* String(n) of a small natural number
DecimalDigits == <<"0", "1", "2", "3", "4", "5", "6", "7", "8", "9">>
RECURSIVE toDecimal(_)
toDecimal(n) ==
  IF n < 10 THEN <<DecimalDigits[n + 1]>>
  ELSE toDecimal(n \div 10) \o <<DecimalDigits[(n % 10) + 1]>>

\* the own enumerable properties an object spread copies: those of an
\* object, a later member over an earlier one of the same key; of a string
\* its characters under their index; of anything else none
ownProps(v) ==
  CASE v.type = "object" ->
         LET keys == {v.members[i].key : i \in DOMAIN v.members}
             last(k) == CHOOSE i \in DOMAIN v.members :
                          /\ v.members[i].key = k
                          /\ \A j \in DOMAIN v.members :
                               v.members[j].key = k => j <= i
         IN  [k \in keys |-> v.members[last(k)].val]
    [] v.type = "string" ->
         [k \in {toDecimal(i - 1) : i \in DOMAIN v.str} |->
            LET i == CHOOSE j \in DOMAIN v.str : toDecimal(j - 1) = k
            IN  JsString(<<v.str[i]>>)]
    [] OTHER -> [k \in {} |-> JsUndefined]

RangeKey == <<"r", "a", "n", "g", "e">>
SessionKey == <<"s", "e", "s", "s", "i", "o", "n">>

\* props with the property key set to val
withProp(props, key, val) ==
  [k \in DOMAIN props \cup {key} |-> IF k = key THEN val ELSE props[k]]

\* a createOptions that spreads the client's options over the session
createOptionsSessionFirst(options, header, session) ==
  LET given == IF options.type = "object" THEN options ELSE JsObject(<<>>)
      props == ownProps(given)
  IN  IF SessionKey \in DOMAIN props THEN props
      ELSE withProp(props, SessionKey, JsSession(session))

\* createOptions(req), lines 130-152, with options = req.fields.options,
\* header = req.headers.range ("" when there is none) and session =
\* req.session: the properties of the object it returns.  A text that does
\* not parse leaves the result the text itself; the assignment of range to a
\* string or a number is dropped (the module is not in strict mode)
createOptionsFrom(options, header, session) ==
  LET given == IF truthy(options) THEN options ELSE JsObject(<<>>)
      parsed == JSONparse(options.str)
      res == IF options.type = "string" /\ parsed.ok
             THEN IF truthy(parsed.val) THEN parsed.val ELSE JsObject(<<>>)
             ELSE given
      ranged == IF header # <<>> /\ res.type = "object"
                THEN withProp(ownProps(res), RangeKey,
                              JsRange(parseRangeHeader(header)))
                ELSE ownProps(res)
  IN  withProp(ranged, SessionKey, JsSession(session))

\* JSON.stringify of a number, a string without quotes, or an object of them
stringify(v) ==
  CASE v.type = "number" -> toDecimal(v.n)
    [] v.type = "string" -> <<"\"">> \o v.str \o <<"\"">>
    [] OTHER ->
         <<"{">> \o
         Join([i \in DOMAIN v.members |->
                 <<"\"">> \o v.members[i].key \o <<"\"", ":">> \o
                 (IF v.members[i].val.type = "number"
                  THEN toDecimal(v.members[i].val.n)
                  ELSE <<"\"">> \o v.members[i].val.str \o <<"\"">>)], ",")
         \o <<"}">>

\* the options objects clients send: up to MaxKeys members
OptionKeys == {<<"a">>, RangeKey, SessionKey}
OptionValues == {JsNumber(1), JsString(<<"x">>)}
OptionObjects ==
  {JsObject(ms) :
     ms \in UNION {[1..n -> {Prop(k, v) : k \in OptionKeys, v \in OptionValues}] :
                     n \in 0..MaxKeys}}
\* the texts clients send: an object or a scalar as JSON, and every text
\* that is one of these with one character lost
OptionTexts ==
  {stringify(v) : v \in OptionObjects \cup {JsNumber(0), JsNumber(1), JsString(<<"x">>)}}
DamagedTexts ==
  UNION {{SubSeq(t, 1, i - 1) \o SubSeq(t, i + 1, Len(t)) : i \in 1..Len(t)} :
           t \in OptionTexts}
OptionFields ==
  {JsUndefined} \cup OptionObjects
    \cup {JsString(t) : t \in OptionTexts \cup DamagedTexts}

OptionsInit ==
  /\ fs = InitFs
  /\ pending = NoPending
  /\ nreq = 0
  /\ pc = "idle"
  /\ req = NoRequest
  /\ found = [src |-> 0, dest |-> 0]
  /\ passed = FALSE
  /\ calls = <<>>
  /\ stream = Undefined
  /\ result = Undefined
  /\ outcome = NoOutcome
  /\ gin \in {[options |-> o, header |-> h, session |-> u] :
                o \in OptionFields,
                h \in {<<>>, <<"b", "y", "t", "e", "s", "=", "0", "-", "1">>},
                u \in Users}
  /\ gout = NoGateOutput
  /\ writers = NoWriters
  /\ tmp = NoTmp
  /\ launcher = NoLauncher

\* createOptions(req)
CreateOptions ==
  /\ gout.fn = ""
  /\ gout' = [fn |-> "createOptions",
              options |-> createOptionsFrom(gin.options, gin.header, gin.session)]
  /\ UNCHANGED <<gateway, gin>>

\* JSON.parse of the options field, where it is a text
ParseOptions ==
  /\ gout.fn = ""
  /\ gin.options.type = "string"
  /\ gout' = [fn |-> "JSON.parse", parsed |-> JSONparse(gin.options.str)]
  /\ UNCHANGED <<gateway, gin>>

OptionsNext ==
  \/ CreateOptions
  \/ ParseOptions

OptionsSpec == OptionsInit /\ [][OptionsNext]_vars

(***************************************************************************)
(* The headers of readfile alone (vfs.js), for every way a mount can name  *)
(* its adapter and switch ranges on.                                       *)
(***************************************************************************)
\* mounts: the adapter property of the mount (what mountpointResolver binds
\* the adapter by) and the adapter and ranges attributes
AdapterNames == {"", "system", "other"}
RangeMounts ==
  {[MountX EXCEPT !.adapter = a, !.attributes.adapter = b, !.attributes.ranges = r] :
     a \in AdapterNames, b \in AdapterNames, r \in {"undefined", "true", "false"}}

HeadInit ==
  /\ fs = InitFs
  /\ pending = NoPending
  /\ nreq = 0
  /\ pc = "idle"
  /\ req = NoRequest
  /\ found = [src |-> 0, dest |-> 0]
  /\ passed = FALSE
  /\ calls = <<>>
  /\ stream = Undefined
  /\ result = Undefined
  /\ outcome = NoOutcome
  /\ gin \in {[mount |-> m, header |-> h, data |-> d] :
                m \in RangeMounts, h \in RangeHeaders, d \in Contents}
  /\ gout = NoGateOutput
  /\ writers = NoWriters
  /\ tmp = NoTmp
  /\ launcher = NoLauncher

\* call(), lines 182-206, for a readfile of a file holding gin.data that
\* the adapter has resolved
ReadfileHead ==
  /\ gout.fn = ""
  /\ LET options == createOptions(FALSE, "", gin.header, NoUser)
         stat == Resolve(fs, StatValue(File(gin.data), <<"/", "a">>))
         head == readfileHead(gin.mount, options.range, stat)
     IN  gout' = [fn |-> "readfile", head |-> head,
                  status |-> IF head.ranged THEN 206 ELSE 200]
  /\ UNCHANGED <<gateway, gin>>

\* mountpointResolver, lines 232-234, alone
BindAdapter ==
  /\ gout.fn = ""
  /\ gout' = [fn |-> "mountpointResolver", adapter |-> adapterOf(gin.mount)]
  /\ UNCHANGED <<gateway, gin>>

HeadNext ==
  \/ ReadfileHead
  \/ BindAdapter

HeadSpec == HeadInit /\ [][HeadNext]_vars

(***************************************************************************)
(* Packages.launch of one singleton application package (packages.js).     *)
(*                                                                         *)
(* launcher.calls holds the calls of launch in order, each with the state  *)
(* of what it returned: "loading" while its own _launch waits for the      *)
(* preloader, "waiting" while it waits for the launched event of another   *)
(* launch, "stuck" once its listener has run without resolving, and        *)
(* "resolved", "rejected" or "threw" once it has ended.                    *)
(***************************************************************************)
Launch(state, val) == [state |-> state, val |-> val]

\* core.emit(`meeseOS/application:${name}:launched`, a): the once-listeners
\* of the waiting calls run; with an Application they resolve it, with
\* anything else a.emit throws in the listener and the promise is left
\* pending
emitLaunched(launches, isApplication) ==
  [i \in DOMAIN launches |->
     IF launches[i].state # "waiting" THEN launches[i]
     ELSE IF isApplication THEN Launch("resolved", "app")
     ELSE Launch("stuck", "none")]

Waiting == {i \in DOMAIN launcher.calls : launcher.calls[i].state = "waiting"}

\* launch(name) and _launchApplication up to the return, lines 173-236, with
\* the synchronous part of _launch, lines 354-356: permitted is what
\* canLaunch(metadata) answers
LaunchCall ==
  /\ Len(launcher.calls) < MaxLaunches
  /\ \E permitted \in BOOLEAN :
       launcher' =
         IF launcher.app = "alive"
         THEN [launcher EXCEPT !.calls = Append(@, Launch("resolved", "app"))]
         ELSE IF launcher.running > 0
         THEN [launcher EXCEPT !.calls = Append(@, Launch("waiting", "none"))]
         ELSE IF ~permitted
         THEN [launcher EXCEPT !.running = @ + 1,
                               !.calls = Append(@, Launch("threw", "none"))]
         ELSE [launcher EXCEPT !.running = @ + 1,
                               !.calls = Append(@, Launch("loading", "none"))]
  /\ UNCHANGED <<fs, pending, nreq, pc, req, found, passed, calls, stream, result,
                 outcome, gin, gout, writers, tmp>>

\* _launch, lines 358-369, the preloader has answered with errors or the
\* runtime of the package is not registered: fail() emits launched with
\* false and throws
LaunchFail ==
  /\ \E i \in DOMAIN launcher.calls :
       /\ launcher.calls[i].state = "loading"
       /\ launcher' =
            [launcher EXCEPT
               !.calls = [emitLaunched(@, FALSE) EXCEPT ![i] = Launch("rejected", "none")]]
  /\ UNCHANGED <<fs, pending, nreq, pc, req, found, passed, calls, stream, result,
                 outcome, gin, gout, writers, tmp>>

\* _launch, lines 318-350 and 368: create(found).  made is what the
\* callback of the package did: returned an Application, returned something
\* else, or threw.  Without an Application the launched event carries
\* undefined; where a listener throws on it, the emitter either swallows
\* the exception or lets it through the finally block
LaunchCreate ==
  /\ \E i \in DOMAIN launcher.calls, made \in {"app", "other", "throws"} :
       /\ launcher.calls[i].state = "loading"
       /\ IF made = "app"
          THEN launcher' =
                 [launcher EXCEPT
                    !.app = "alive",
                    !.calls = [emitLaunched(@, TRUE) EXCEPT ![i] = Launch("resolved", "app")]]
          ELSE \E ended \in IF Waiting = {} THEN {"resolved"} ELSE {"resolved", "rejected"} :
                 launcher' =
                   [launcher EXCEPT
                      !.calls = [emitLaunched(@, FALSE)
                                   EXCEPT ![i] = Launch(ended, IF ended = "resolved"
                                                               THEN "undefined" ELSE "none")]]
  /\ UNCHANGED <<fs, pending, nreq, pc, req, found, passed, calls, stream, result,
                 outcome, gin, gout, writers, tmp>>

\* the "destroy" listener of lines 326-331: the application goes away and
\* one entry of its name leaves _running
LaunchDestroy ==
  /\ launcher.app = "alive"
  /\ launcher' = [launcher EXCEPT !.app = "none",
                                  !.running = IF @ > 0 THEN @ - 1 ELSE 0]
  /\ UNCHANGED <<fs, pending, nreq, pc, req, found, passed, calls, stream, result,
                 outcome, gin, gout, writers, tmp>>

LaunchNext ==
  \/ LaunchCall
  \/ LaunchFail
  \/ LaunchCreate
  \/ LaunchDestroy

LaunchSpec == Init /\ [][LaunchNext]_vars

\* the preloader answers every load, so a launch that is loading goes on
LaunchFairSpec ==
  LaunchSpec /\ WF_vars(LaunchFail \/ LaunchCreate)

(***************************************************************************)
(* Two writefile calls on one real path (adapters/vfs/system.js): the      *)
(* requests have passed the gateway, which holds no lock and keeps no      *)
(* version, and both calls of adapter.writefile are under way.             *)
(***************************************************************************)
\* the uploads of the two requests
RaceContents == UNION {[1..n -> Bytes] : n \in 0..MaxChunk}
\* the real paths written to: a file, a path without entry, a directory
RacePaths ==
  {<<"/", "v", "/", "h", "/", "a">>, <<"/", "v", "/", "h", "/", "b">>,
   <<"/", "v", "/", "x", "/", "a">>}

RaceInit ==
  /\ fs = InitFs
  /\ pending = NoPending
  /\ nreq = 0
  /\ pc = "idle"
  /\ req = NoRequest
  /\ found = [src |-> 0, dest |-> 0]
  /\ passed = FALSE
  /\ calls = <<>>
  /\ stream = Undefined
  /\ result = Undefined
  /\ outcome = NoOutcome
  /\ gin = NoGateInput
  /\ gout = NoGateOutput
  /\ writers \in {[path |-> p, w |-> <<Writer("stat", a), Writer("stat", b)>>] :
                    p \in RacePaths, a \in RaceContents, b \in RaceContents}
  /\ tmp = NoTmp
  /\ launcher = NoLauncher

\* what a file holds after data has been written at its start: the data,
\* then what the file held behind it
overwrite(old, data) == data \o SubSeq(old, Len(data) + 1, Len(old))

\* writefile, lines 394-403: fs.stat, then resolve(false) for a directory,
\* else write(): the write stream is created and the source piped into it
WriterStat(i) ==
  /\ writers.w[i].at = "stat"
  /\ writers' = IF fs[writers.path].type = "dir"
                THEN [writers EXCEPT !.w[i].at = "closed", !.w[i].resolved = TRUE,
                                     !.w[i].val = FALSE]
                ELSE [writers EXCEPT !.w[i].at = "pipe"]
  /\ UNCHANGED <<fs, pending, nreq, pc, req, found, passed, calls, stream,
                 result, outcome, gin, gout, tmp, launcher>>

\* writefile, line 389: the write stream opens its file with flag "w": the
\* file is created or truncated
WriterOpen(i) ==
  /\ writers.w[i].at = "pipe"
  /\ fs' = [fs EXCEPT ![writers.path] = File(<<>>)]
  /\ writers' = [writers EXCEPT !.w[i].at = "opened"]
  /\ UNCHANGED <<pending, nreq, pc, req, found, passed, calls, stream,
                 result, outcome, gin, gout, tmp, launcher>>

\* writefile, line 392: the write stream writes what was piped into it, from
\* the start of the file it has opened, and closes
WriterFlush(i) ==
  /\ writers.w[i].at = "opened"
  /\ fs' = [fs EXCEPT ![writers.path] =
              File(overwrite(@.data, writers.w[i].data))]
  /\ writers' = [writers EXCEPT !.w[i].at = "closed"]
  /\ UNCHANGED <<pending, nreq, pc, req, found, passed, calls, stream,
                 result, outcome, gin, gout, tmp, launcher>>

\* writefile, line 391: the "end" event of the source resolves true
WriterEnd(i) ==
  /\ writers.w[i].at \in {"pipe", "opened", "closed"}
  /\ ~writers.w[i].resolved
  /\ writers' = [writers EXCEPT !.w[i].resolved = TRUE, !.w[i].val = TRUE]
  /\ UNCHANGED <<fs, pending, nreq, pc, req, found, passed, calls, stream,
                 result, outcome, gin, gout, tmp, launcher>>

RaceStat == \E i \in 1..2 : WriterStat(i)
RaceOpen == \E i \in 1..2 : WriterOpen(i)
RaceFlush == \E i \in 1..2 : WriterFlush(i)
RaceEnd == \E i \in 1..2 : WriterEnd(i)

RaceNext ==
  \/ RaceStat
  \/ RaceOpen
  \/ RaceFlush
  \/ RaceEnd

RaceSpec == RaceInit /\ [][RaceNext]_vars

(***************************************************************************)
(* sanitize alone (utils/vfs.js): applied to addresses drawn from a        *)
(* bounded set, to its own result, and to an array.                        *)
(***************************************************************************)
\* the characters of the paths: separators, dots, blanks and the letters of
\* a name sanitize-filename reserves
PathChars == {"/", ".", " ", "c", "o", "n"}
PathStrings == UNION {[1..n -> PathChars] : n \in 0..MaxPath}
\* addresses with a prefix and one or two colons, and paths without a prefix
SanitizeInputs ==
  {<<"h">> \o colons \o path :
     colons \in {<<":">>, <<":", ":">>}, path \in PathStrings}
  \cup {path \in PathStrings : Len(path) <= 1}

PathInit ==
  /\ fs = InitFs
  /\ pending = NoPending
  /\ nreq = 0
  /\ pc = "idle"
  /\ req = NoRequest
  /\ found = [src |-> 0, dest |-> 0]
  /\ passed = FALSE
  /\ calls = <<>>
  /\ stream = Undefined
  /\ result = Undefined
  /\ outcome = NoOutcome
  /\ gin \in {[path |-> path] : path \in SanitizeInputs}
  /\ gout = NoGateOutput
  /\ writers = NoWriters
  /\ tmp = NoTmp
  /\ launcher = NoLauncher

\* what sanitize returned for the paths of an array: the results in order,
\* ok where none of them threw
Sanitized(fn, results) ==
  [fn |-> fn, ok |-> \A i \in DOMAIN results : results[i].ok,
   val |-> [i \in DOMAIN results |-> results[i].val]]

\* sanitize(path)
Sanitize ==
  /\ gout.fn = ""
  /\ gout' = Sanitized("sanitize", <<sanitize(gin.path)>>)
  /\ UNCHANGED <<gateway, gin>>

\* sanitize(sanitize(path))
SanitizeAgain ==
  /\ gout.fn = "sanitize"
  /\ gout.ok
  /\ gout' = Sanitized("sanitize-again", <<sanitize(gout.val[1])>>)
  /\ UNCHANGED <<gateway, gin>>

\* sanitize([path, "h://c"])
SanitizeArray ==
  /\ gout.fn = ""
  /\ gout' = Sanitized("sanitize-array",
                       sanitizeAll(<<gin.path, <<"h", ":", "/", "/", "c">>>>))
  /\ UNCHANGED <<gateway, gin>>

PathNext ==
  \/ Sanitize
  \/ SanitizeAgain
  \/ SanitizeArray

PathSpec == PathInit /\ [][PathNext]_vars

(***************************************************************************)
(* Properties of the gateway (under Spec).                                 *)
(***************************************************************************)
\* the request in flight is a copy or rename
IsCross == req.method \in CrossMethods
\* index of the mount an address names, 0 when no mount has its prefix
MountOf(path) == findMount(getPrefix(path))
\* the request in flight has passed sanitize and is being handled
InFlight == pc \notin {"idle"} /\ req.ok

\* C1: writefile, mkdir, unlink and touch on a mount with readOnly = true are
\* rejected with 403 "Mountpoint '<name>' is read-only" naming the mount,
\* for every user (the read-only check comes before the group check), and
\* the adapter is never invoked for such a request.
C1_ReadOnlyRejectsWrites ==
  (InFlight /\ req.method \in WriteMethods /\ MountOf(req.target) # 0
     /\ mountpoints[MountOf(req.target)].attributes.readOnly)
  => /\ calls = <<>>
     /\ outcome.state # "resolved"
     /\ pc = "done" =>
          /\ outcome.state = "rejected"
          /\ outcome.err.code = 403
          /\ outcome.err.kind = "read-only"
          /\ outcome.err.subject = mountpoints[MountOf(req.target)].name

\* C1 happens: a user without any group asks to unlink on the read-only
\* mount and gets the read-only error, not the group error
C1_Witness ==
  /\ pc = "done" /\ req.method = "unlink" /\ req.user.groups = <<>>
  /\ getPrefix(req.target) = <<"r">>
  /\ outcome.state = "rejected" /\ outcome.err.kind = "read-only"

\* the prefixes of the request in flight that no mount has, source first
Unregistered ==
  IF MountOf(req.target) = 0 THEN <<getPrefix(req.target)>>
  ELSE IF IsCross /\ MountOf(req.dest) = 0 THEN <<getPrefix(req.dest)>>
  ELSE <<>>

C3_ChecksBeforeAdapter ==
  [][/\ calls' # <<>> =>
          /\ passed'
          /\ found'.src # 0
          /\ req'.method \in CrossMethods => found'.dest # 0
     /\ (pc # "idle" /\ ~passed) => fs' = fs
     /\ (pc' = "done" /\ outcome'.state = "rejected"
           /\ outcome'.err.kind \in {"mountpoint-not-found", "read-only", "denied"})
        => (calls' = <<>> /\ fs' = fs /\ ~pending'.active)]_vars

\* C3 happens: a copy whose source check passed is rejected by the check of
\* its destination
C3_Witness ==
  /\ pc = "done" /\ req.method = "copy" /\ found.dest # 0
  /\ outcome.state = "rejected" /\ outcome.err.kind = "denied"
  /\ outcome.err.method = "writefile" /\ calls = <<>>

\* the source and the destination mount of the copy or rename in flight
SrcMount == mountpoints[MountOf(req.target)]
DestMount == mountpoints[MountOf(req.dest)]
\* their real paths
RealSource == getRealPath(req.options.session, SrcMount, req.target)
RealDest == getRealPath(req.options.session, DestMount, req.dest)
\* a copy or rename is being handled and both its mounts are registered
CrossInFlight ==
  InFlight /\ IsCross /\ MountOf(req.target) # 0 /\ MountOf(req.dest) # 0
\* the group check of the user in flight for a method on a mount, with the
\* mount's own strictGroups (strict unless it is false)
GroupsAllow(mount, method) ==
  validateGroups(req.user.groups, method, mount,
                 IF mount.attributes.strictGroups = "false" THEN "false" ELSE "true")
\* the request in flight has been rejected with 403 and this message
Denied(kind, method, mount) ==
  /\ outcome.state = "rejected" /\ outcome.err.code = 403
  /\ outcome.err.kind = kind /\ outcome.err.method = method
  /\ outcome.err.subject = mount.name

\* what C7 says of a state of a copy or rename
CrossChecks ==
  CrossInFlight
  => LET srcAllowed == GroupsAllow(SrcMount, "readfile")
         destAllowed == GroupsAllow(DestMount, "writefile")
         destReadOnly == DestMount.attributes.readOnly
     IN  /\ ~srcAllowed
            => calls = <<>> /\ (pc = "done" => Denied("denied", "readfile", SrcMount))
         /\ (srcAllowed /\ destReadOnly)
            => calls = <<>> /\ (pc = "done" => Denied("read-only", "", DestMount))
         /\ (srcAllowed /\ ~destReadOnly /\ ~destAllowed)
            => calls = <<>> /\ (pc = "done" => Denied("denied", "writefile", DestMount))
         /\ (srcAllowed /\ ~destReadOnly /\ destAllowed)
            => (pc = "done" => passed)

\* C7: copy and rename check the source mount for group permission only (a
\* read-only source is accepted) and the destination mount for a read-only
\* violation and for group permission, each with its own mount's
\* strictGroups; with a read-only destination the request is rejected with
\* 403 and no step of it changes the backend.
C7_CrossChecks ==
  [][/\ CrossChecks
     /\ (CrossInFlight /\ DestMount.attributes.readOnly)
        => (fs' = fs /\ ~pending'.active /\ outcome'.state # "resolved")]_vars

\* C7 happens: a user holding every group copies to the read-only mount and
\* is rejected with the read-only error
C7_Witness ==
  /\ pc = "done" /\ req.method = "copy" /\ req.user.groups = <<"admin", "staff">>
  /\ getPrefix(req.target) = <<"h">> /\ getPrefix(req.dest) = <<"r">>
  /\ outcome.state = "rejected" /\ outcome.err.kind = "read-only"

\* a copy or rename between mounts whose adapters differ is being handled
FallbackInFlight == CrossInFlight /\ adapterOf(SrcMount) # adapterOf(DestMount)
\* p is a prefix of the sequence q
IsPrefix(p, q) == Len(p) <= Len(q) /\ \A i \in 1..Len(p) : p[i] = q[i]
\* the destination holds the data read from the source
DestWritten == stream.type = "stream" /\ Entry(fs, RealDest) = File(stream.bytes)

\* C8: between mounts whose adapters differ the steps are source readfile,
\* destination writefile, then for rename source unlink, in this order; when
\* the request settles after a destination write that rejected or did not
\* write the data, the source entry still exists.
C8_UnlinkOnlyAfterWrite ==
  FallbackInFlight
  => /\ IsPrefix(calls,
                 <<Call(adapterOf(SrcMount), "readfile", RealSource),
                   Call(adapterOf(DestMount), "writefile", RealDest)>>
                 \o IF req.method = "rename"
                    THEN <<Call(adapterOf(SrcMount), "unlink", RealSource)>>
                    ELSE <<>>)
     /\ (pc = "done" /\ Len(calls) >= 2 /\ ~DestWritten)
        => Entry(fs, RealSource).type # "none"

\* C9: a rename of a file that resolves ends with the destination holding
\* the source's prior content and the source gone, by the adapter's native
\* rename (same adapter) as by the readfile, writefile, unlink fallback
\* (differing adapters), and resolves a boolean.
C9_RenameEndState ==
  [][(/\ CrossInFlight /\ req.method = "rename"
      /\ pc \in {"xnative", "xunlink"} /\ pc' = "done"
      /\ outcome'.state = "resolved"
      /\ Entry(fs, RealSource).type = "file" /\ RealSource # RealDest)
     => /\ Entry(Completed(fs', pending'), RealDest) = Entry(fs, RealSource)
        /\ Entry(fs', RealSource).type = "none"
        /\ outcome'.val.type = "boolean"]_vars

\* C10: once writefile of the bytes B to a file address has resolved,
\* readfile of the address yields B and stat reports a file of size Len(B).
C10_RoundTrip ==
  (pc = "done" /\ req.method = "writefile" /\ outcome.state = "resolved"
     /\ result = BoolValue(TRUE))
  => LET read == adapterReadfile(fs, RealSource)
         stat == adapterStat(fs, RealSource)
     IN  /\ read.ok /\ read.val = StreamValue(req.upload)
         /\ stat.ok /\ stat.val.isFile /\ ~stat.val.isDirectory
         /\ stat.val.n = Len(req.upload)

(***************************************************************************)
(* Properties of the permission gate (under GateSpec).                     *)
(***************************************************************************)
\* the groups of the user of the call, as a set
UserSet == {gin.userGroups[i] : i \in 1..Len(gin.userGroups)}
\* the plain-string entries of the mount's groups list
NamedSet ==
  {gin.mount.attributes.groups[i].str :
     i \in {j \in 1..Len(gin.mount.attributes.groups) :
              gin.mount.attributes.groups[j].isString}}
\* the call was made with strict = false
Lenient == gin.strict = "false"

\* C4: validation of the mount's named groups against the user's groups:
\* strict (also when strict is not given) succeeds iff every named group of
\* the mount is in the user's groups; lenient succeeds iff at least one
\* named group is in the user's groups, or the mount has no named group.
C4_NamedGroupsRule ==
  gout.fn = "validateNamedGroups"
  => gout.ok = IF Lenient
               THEN NamedSet = {} \/ NamedSet \cap UserSet # {}
               ELSE NamedSet \subseteq UserSet

\* C4 as stated: lenient succeeds iff at least one named group of the mount
\* is in the user's groups.
C4_AsStated ==
  gout.fn = "validateNamedGroups"
  => gout.ok = IF Lenient
               THEN NamedSet \cap UserSet # {}
               ELSE NamedSet \subseteq UserSet

\* C4 happens: a lenient validation of a groups list that holds a method
\* map and no named group succeeds for a user without groups
C4_Witness ==
  /\ gout.fn = "validateNamedGroups" /\ Lenient
  /\ gin.mount.attributes.groups # <<>> /\ NamedSet = {}
  /\ gin.userGroups = <<>> /\ gout.ok

\* the maps of the mount's groups list that name the method of the call
MapsOfMethod ==
  {i \in 1..Len(gin.mount.attributes.groups) :
     /\ ~gin.mount.attributes.groups[i].isString
     /\ gin.method \in DOMAIN gin.mount.attributes.groups[i].map}
\* the groups listed for the method of the call, in the first map naming it
MethodSet ==
  LET i == CHOOSE k \in MapsOfMethod : \A j \in MapsOfMethod : k <= j
      list == gin.mount.attributes.groups[i].map[gin.method]
  IN  {list[k] : k \in 1..Len(list)}

\* C5: the method-scoped check looks at the current method only: when no
\* map of the mount names the method it passes for every user; otherwise
\* the groups listed for the method (in the first map that names it) are
\* validated with the strict/lenient rule: strict asks for every one of them
\* in the user's groups, lenient for at least one.
C5_MethodGroupsRule ==
  gout.fn = "validateMethodGroups"
  => gout.ok = IF MapsOfMethod = {} THEN TRUE
               ELSE IF Lenient THEN MethodSet \cap UserSet # {}
               ELSE MethodSet \subseteq UserSet

\* C5 happens: the mount restricts readfile to admin, and a user without
\* groups passes the method-scoped check for writefile
C5_Witness ==
  /\ gout.fn = "validateMethodGroups" /\ gin.method = "writefile"
  /\ gin.mount.attributes.groups = <<MethodMap([m \in {"readfile"} |-> <<"admin">>])>>
  /\ gin.userGroups = <<>> /\ gout.ok

\* the read-only violation of the call: readOnly is true, or a function that
\* answers an address in this mount, and the mount is read-only
ReadOnlyViolation ==
  /\ gin.mount.attributes.readOnly
  /\ \/ ~gin.readOnly.isFn /\ gin.readOnly.val
     \/ gin.readOnly.isFn /\ Split(gin.readOnly.target, ":")[1] = gin.mount.name
\* the mount has no groups attribute, or an empty list
NoGroups == ~gin.mount.attributes.hasGroups \/ gin.mount.attributes.groups = <<>>

\* C6: checkMountpointPermission resolves true iff there is no read-only
\* violation and the named-group check and the method-scoped check both
\* pass; a mount without groups (or with an empty list) passes for every
\* user; a group failure rejects with 403 "Permission was denied for
\* '<method>' in '<mount name>'".
C6_PermissionIsConjunction ==
  gout.fn = "checkMountpointPermission"
  => LET named == validateNamedGroups(gin.mount.attributes.groups,
                                      gin.userGroups, gin.strict)
         scoped == validateMethodGroups(gin.mount.attributes.groups,
                                        gin.userGroups, gin.method, gin.strict)
         allowed == NoGroups \/ (named /\ scoped)
     IN  /\ gout.ok = (~ReadOnlyViolation /\ allowed)
         /\ (NoGroups /\ ~ReadOnlyViolation) => gout.ok
         /\ (~ReadOnlyViolation /\ ~allowed)
            => /\ gout.err.code = 403 /\ gout.err.kind = "denied"
               /\ gout.err.method = gin.method
               /\ gout.err.subject = gin.mount.name

\* C6 happens: the named check passes and the method-scoped check fails, and
\* the call is rejected with the denied error
C6_Witness ==
  /\ gout.fn = "checkMountpointPermission" /\ ~gout.ok
  /\ gin.userGroups = <<"admin">> /\ gin.method = "writefile"
  /\ gin.mount.attributes.groups =
       <<Named("admin"),
         MethodMap([m \in {"readfile", "writefile"} |->
                      IF m = "readfile" THEN <<"admin", "staff">> ELSE <<"staff">>])>>
  /\ ~ReadOnlyViolation /\ gout.err.kind = "denied"

(***************************************************************************)
(* Properties of the archive route.                                        *)
(***************************************************************************)
\* the archive request in flight has reached the call of adapter.archive of
\* an adapter that has the method
ArchiveCall ==
  /\ pc = "call"
  /\ req.method = "archive"
  /\ "archive" \in adapterMethods(adapterOf(mountpoints[found.src]))
\* the real path archive computes for the i-th address of the selection
RealSelection(i) ==
  getRealPath(req.options.session, mountpoints[found.src], req.selection[i])
\* extract is asked for the zip that compress of the single file next to it
\* has written: the zip holds that file, under its name
ExtractOfCompressed ==
  /\ ArchiveCall
  /\ req.options.action = "extract"
  /\ Len(req.selection) = 1
  /\ LET zipPath == RealSelection(1)
         original == extractTarget(zipPath)
     IN  /\ zipPath = original \o ZipSuffix
         /\ Entry(fs, original).type = "file"
         /\ Entry(fs, zipPath) = ZipOf(archiveMembers(fs, original, zipPath))

\* C11: archive round trip: compress of a selection holding a single file
\* writes <real path of the file>.zip beside it, and extract of that zip
\* succeeds and leaves the directory named by removing ".zip", which holds
\* the file with identical content.
C11_ArchiveRoundTrip ==
  [][ExtractOfCompressed
       => LET zipPath == RealSelection(1)
              target == extractTarget(zipPath)
          IN  /\ pc' = "done"
              /\ outcome'.state = "resolved"
              /\ Entry(fs', target).type = "dir"
              /\ \E i \in DOMAIN Entry(fs', target).members :
                    Entry(fs', target).members[i] = Entry(fs, zipPath).members[1]
     ]_vars

\* C12: archive called with an action other than compress or extract
\* rejects with the error "Unknown archive action: '<action>'" and changes
\* nothing in the backend: no zip is created, nothing is extracted.
C12_UnknownActionRejected ==
  [][(ArchiveCall /\ req.options.action \notin {"", "compress", "extract"})
       => /\ pc' = "done"
          /\ outcome' = Rejected([PlainError("unknown-archive-action")
                                   EXCEPT !.method = req.options.action])
          /\ fs' = fs
          /\ pending' = pending
          /\ ~pending'.active
     ]_vars

\* C12 happens: an archive request with the action "other" has passed the
\* checks, reached the adapter and settled with the unknown-action error
C12_Witness ==
  /\ pc = "done"
  /\ req.method = "archive"
  /\ req.options.action = "other"
  /\ passed
  /\ Len(calls) = 1
  /\ outcome.err.kind = "unknown-archive-action"

\* archive(compress) has rejected: adapter.archive was called and the
\* request settled with the error of the entry that could not be added
CompressRejected ==
  /\ pc = "done"
  /\ req.method = "archive"
  /\ req.options.action \in {"", "compress"}
  /\ Len(calls) = 1
  /\ outcome.state = "rejected"

\* C13: if adding a selected entry fails during archive(compress), the error
\* is re-raised and the partial zip (first real path + ".zip") has been
\* deleted: once the rejection is there the zip does not exist, and no write
\* stream of the aborted operation is about to create it.
C13_PartialZipDeleted ==
  CompressRejected
  => /\ outcome.err = NativeError("ENOENT")
     /\ Entry(fs, RealSelection(1) \o ZipSuffix).type = "none"
     /\ ~pending.unlink
     /\ ~(pending.active /\ ~pending.opened)

(***************************************************************************)
(* Properties of the single-target routes.                                 *)
(***************************************************************************)
\* a search request on a registered mount is being handled
SearchInFlight ==
  InFlight /\ req.method = "search" /\ MountOf(req.target) # 0

\* C14: a search on a mount that declares searchable: false resolves to an
\* empty array, is not an error and invokes no adapter method; a search on a
\* mount without that attribute goes through the permission gate and then
\* the adapter.
C14_SearchShortCircuit ==
  SearchInFlight
  => LET mount == mountpoints[MountOf(req.target)]
     IN  IF mount.attributes.searchable = "false"
         THEN /\ calls = <<>>
              /\ outcome.state # "rejected"
              /\ pc = "done" => outcome = Resolved(ArrayValue)
         ELSE /\ calls # <<>> => passed
              /\ pc = "done" =>
                   \/ /\ outcome.state = "rejected"
                      /\ outcome.err.code = Forbidden
                      /\ calls = <<>>
                   \/ /\ passed
                      /\ calls = <<Call(adapterOf(mount), "search",
                                        getRealPath(req.options.session,
                                          mountpoints[MountOf(req.target)],
                                          req.target))>>
                      /\ outcome.state = "resolved"
                      /\ outcome.val.type = "array"

\* C14 happens: a user without any group, whom the gate of mount r would
\* turn away, has searched r and got the empty array
C14_Witness ==
  /\ pc = "done"
  /\ req.method = "search"
  /\ req.user.groups = <<>>
  /\ found.src # 0
  /\ mountpoints[found.src].attributes.searchable = "false"
  /\ outcome = Resolved(ArrayValue)
  /\ calls = <<>>

\* the request has passed its permission checks and the adapter it is routed
\* to has no method of its name (for copy and rename: both mounts on one
\* adapter, whose own copy or rename is asked for)
MethodMissing ==
  /\ req.ok
  /\ passed
  /\ found.src # 0
  /\ req.method \notin adapterMethods(adapterOf(mountpoints[found.src]))
  /\ IsCross => /\ found.dest # 0
                /\ adapterOf(mountpoints[found.src]) = adapterOf(mountpoints[found.dest])

\* C15: when the resolved adapter does not implement the requested method the
\* gateway rejects, after the permission checks have passed, with the error
\* "Adapter does not support <method>", whatever the gateway method is.
C15_UnsupportedMethod ==
  (MethodMissing /\ pc = "done")
  => /\ outcome = Rejected(Unsupported(req.method))
     /\ calls = <<>>

\* the request in flight has resolved
HasResolved == pc = "done" /\ outcome.state = "resolved"
\* the routes whose result vfs() passes through respondBoolean or Boolean()
BooleanMethods == {"exists", "mkdir", "unlink", "touch", "copy", "rename"}

\* C16: the result of writefile is always a number: the byte count of a
\* performed write, and -1 only when the write was not performed; the
\* results of exists, mkdir, unlink, touch, copy and rename are booleans.
C16_ResultNormalised ==
  HasResolved
  => /\ req.method = "writefile" =>
          /\ outcome.val.type = "number"
          /\ result = BoolValue(TRUE) => outcome.val = NumberValue(Len(req.upload))
          /\ outcome.val = NumberValue(-1) => result # BoolValue(TRUE)
     /\ req.method \in BooleanMethods => outcome.val.type = "boolean"

(***************************************************************************)
(* Properties of the answers.                                              *)
(***************************************************************************)
\* the request in flight has rejected
HasRejected == pc = "done" /\ outcome.state = "rejected"

ReadfileAnswered ==
  /\ HasResolved
  /\ req.method = "readfile"
  /\ outcome.val.type = "stream"
  /\ rangesOf(mountpoints[found.src])
\* the size of the file the request in flight reads
SizeOfTarget ==
  Len(Entry(fs, getRealPath(req.options.session, mountpoints[found.src],
                            req.target)).data)
\* the Range header asks for bytes inside the file: 0 <= start <= end < size,
\* or 0 <= start < size without an end
RangeInside ==
  LET range == req.options.range
  IN  /\ range.given
      /\ 0 <= range.start
      /\ IF range.hasEnd THEN range.start <= range.end /\ range.end < SizeOfTarget
         ELSE range.start < SizeOfTarget

\* C18: a ranged readfile with a Range header "bytes=start-end" inside the
\* file is answered with 206, Accept-Ranges, Content-Type, Content-Range
\* "bytes start-realEnd/size" and Content-Length realEnd - start + 1, realEnd
\* being end, or size - 1 when no end is given, and the Content-Length is the
\* number of bytes streamed, also for end = 0.  Without a Range header only
\* Content-Type is attached.
C18_RangedRead ==
  ReadfileAnswered
  => LET range == req.options.range
         realEnd == IF range.hasEnd THEN range.end ELSE SizeOfTarget - 1
     IN  /\ RangeInside =>
              /\ outcome.status = 206
              /\ outcome.head = [type |-> TRUE, ranged |-> TRUE,
                                 length |-> realEnd - range.start + 1,
                                 start |-> range.start, end |-> realEnd,
                                 size |-> SizeOfTarget]
              /\ outcome.head.length = Len(outcome.val.bytes)
         /\ ~range.given =>
              /\ outcome.status = 200
              /\ outcome.head = [NoHead EXCEPT !.type = TRUE]

(***************************************************************************)
(* Properties of sanitize.                                                 *)
(***************************************************************************)
\* the address given to sanitize is valid: a prefix of word characters or
\* hyphens, then ":" and a path
ValidAddress == matchAddress(gin.path).ok

\* C19: sanitize is idempotent on valid addresses, sanitize(sanitize(x)) =
\* sanitize(x); its result keeps the prefix, has exactly one ":" after it,
\* and its path has neither duplicate slashes nor a segment of dots; an
\* array is sanitized element by element.
C19_SanitizeIdempotent ==
  /\ (gout.fn = "sanitize" /\ ValidAddress) =>
       LET x == gout.val[1]
           path == Substring(x, IndexOf(x, ":", 1))
       IN  /\ gout.ok
           /\ getPrefix(x) = getPrefix(gin.path)
           /\ IndexOf(path, ":", 1) = 0
           /\ FindSub(path, <<"/", "/">>, 1) = 0
           /\ \A i \in DOMAIN Split(path, "/") :
                 Split(path, "/")[i] \notin {<<".">>, <<".", ".">>}
           /\ sanitize(x) = sanitize(gin.path)
  /\ gout.fn = "sanitize-again" => gout.val[1] = sanitize(gin.path).val
  /\ (gout.fn = "sanitize-array" /\ ValidAddress) =>
       /\ gout.val[1] = sanitize(gin.path).val
       /\ gout.val[2] = <<"h", ":", "/", "c">>

(***************************************************************************)
(* Properties of two writefile calls on one path.                          *)
(***************************************************************************)
\* both calls have resolved true and both write streams have written what
\* they were given and closed
BothWritten ==
  \A i \in 1..2 : /\ writers.w[i].at = "closed"
                  /\ writers.w[i].resolved
                  /\ writers.w[i].val

\* C20: when two writefile requests for the same path have both completed,
\* the file holds exactly the upload of one of them, never a mixture of the
\* two
C20_LastWriteWins ==
  BothWritten =>
    /\ fs[writers.path].type = "file"
    /\ fs[writers.path].data \in {writers.w[1].data, writers.w[2].data}

(***************************************************************************)
(* Properties of the finalizer and of the upload.                          *)
(***************************************************************************)
\* the temporary files the finalizer cannot remove
Stuck(files) == {i \in DOMAIN files : files[i].exists /\ ~files[i].removable}

\* C21: the finalizer runs when the request has settled and is answered,
\* resolved or rejected, and at no other time (so not while the adapter
\* reads the upload): it removes every temporary file that can be removed,
\* logs each one that cannot, and the status answered is that of the outcome
C21_FinalizerAfterSettle ==
  [][/\ (pc # "idle" /\ tmp' # tmp) =>
          (pc = "done" /\ outcome.state \in {"resolved", "rejected"})
     /\ (pc = "done" /\ pc' = "idle") =>
          /\ \A i \in DOMAIN tmp.files :
               tmp'.files[i].exists = (i \in Stuck(tmp.files))
          /\ tmp'.warned = Cardinality(Stuck(tmp.files))
          /\ tmp'.answered = outcome.status]_vars

\* a resolved writefile has been answered with 200, the finalizer has logged
\* the first temporary file, which it could not remove, and has removed the
\* second
C21_Witness ==
  /\ pc = "idle"
  /\ tmp.answered = 200
  /\ Len(tmp.files) = 2
  /\ tmp.files[1].exists /\ ~tmp.files[2].exists
  /\ tmp.warned = 1

\* the real path of the target of the single-target request in flight
RealTarget == getRealPath(req.options.session, mountpoints[found.src], req.target)

\* C22: writefile to a directory resolves false and changes nothing and
\* starts no write; to any other path, the source having ended resolves
\* true and the write stream, when it has finished, leaves the file with
\* the uploaded data; and once the write stream has emitted an error the
\* operation is rejected, neither unsettled nor resolved
C22_Writefile ==
  [][/\ (pc = "call" /\ pc' # "call" /\ req.method = "writefile"
          /\ Entry(fs, RealTarget).type = "dir") =>
          /\ fs' = fs /\ pending' = pending
          /\ result' = BoolValue(FALSE)
          /\ outcome'.state = "resolved"
     /\ (pc = "wpipe" /\ pc' = "done" /\ req.method = "writefile"
          /\ outcome'.state = "resolved") => result' = BoolValue(TRUE)
     /\ (pending.active /\ pending.opened /\ ~pending'.active
          /\ ~pending.zip /\ ~pending'.error) =>
          fs'[pending.path] = File(pending.data)
     /\ (pending'.error /\ \E i \in DOMAIN calls' : calls'[i].method = "writefile") =>
          (pc' = "done" /\ outcome'.state = "rejected")]_vars

(***************************************************************************)
(* Properties of createOptions.                                            *)
(***************************************************************************)
\* the options made of the properties props, the parsed Range header of
\* the request if it has one, and the session of the request
OptionsOf(props) ==
  withProp(IF gin.header # <<>>
           THEN withProp(props, RangeKey, JsRange(parseRangeHeader(gin.header)))
           ELSE props,
           SessionKey, JsSession(gin.session))

\* C23: for an options field that is a text, createOptions returns the
\* members of the object the text parses to, and for a text that does not
\* parse the empty object, in both cases with range (when the request has a
\* Range header) and session
C23_OptionsParsedDefensively ==
  (gout.fn = "createOptions" /\ gin.options.type = "string") =>
    LET p == JSONparse(gin.options.str)
    IN  /\ (p.ok /\ p.val.type = "object") =>
             gout.options = OptionsOf(ownProps(p.val))
        /\ ~p.ok => gout.options = OptionsOf([k \in {} |-> JsUndefined])

\* a mount whose root names the user: {vfs}/{username}
MountHome ==
  [MountH EXCEPT !.attributes.root =
     <<"{", "v", "f", "s", "}", "/",
       "{", "u", "s", "e", "r", "n", "a", "m", "e", "}">>]

\* the options field names a session itself: as a member of the object, or
\* in the text of an object
ClientSession ==
  LET p == JSONparse(gin.options.str)
      o == IF gin.options.type = "string" /\ p.ok THEN p.val ELSE gin.options
  IN  o.type = "object" /\ \E i \in DOMAIN o.members : o.members[i].key = SessionKey

\* C29: whatever the options field holds, the session of the options handed
\* to the adapter is the session of the request, so an address below a
\* {username} root resolves to the directory of the user of the request
C29_SessionNotReplaced ==
  gout.fn = "createOptions" =>
    /\ gout.options[SessionKey] = JsSession(gin.session)
    /\ getRealPath(gout.options[SessionKey].user, MountHome, <<"h", ":", "/", "a">>)
         = VfsRoot \o <<"/">> \o gin.session.username \o <<"/", "a">>

\* options were created for a request whose options field names a session
C29_Witness ==
  /\ gout.fn = "createOptions"
  /\ ClientSession
  /\ gin.options.type = "string"
  /\ gout.options[SessionKey] = JsSession(gin.session)

(***************************************************************************)
(* Properties of the ranged read per mount.                                *)
(***************************************************************************)
\* C24: a readfile gets the 206 answer only on a mount that is bound to the
\* system adapter or has ranges: true, and on such a mount a request with a
\* Range header for a file that is not empty gets it
C24_RangesPerAdapter ==
  gout.fn = "readfile" =>
    /\ gout.status = 206 => rangesOfBoundAdapter(gin.mount)
    /\ (rangesOfBoundAdapter(gin.mount) /\ gin.header # <<>> /\ gin.data # <<>>) =>
         gout.status = 206

(***************************************************************************)
(* Properties of a read-only mount.                                        *)
(***************************************************************************)
\* the resolved roots of the mounts whose attributes.readOnly is true
ReadOnlyRoots ==
  {getRealPath(u, mountpoints[i], mountpoints[i].root) :
     u \in Users, i \in {j \in 1..Len(mountpoints) : mountpoints[j].attributes.readOnly}}

\* C25: the backend below a read-only mount stays as it was at the start,
\* whatever requests (writefile, mkdir, unlink, touch, copy, rename,
\* archive) the gateway has served
C25_ReadOnlyMountUnchanged ==
  \A root \in ReadOnlyRoots, p \in DOMAIN fs :
    IsPrefix(root, p) => fs[p] = InitFs[p]

(***************************************************************************)
(* Properties of the method-scoped groups of a mount.                      *)
(***************************************************************************)
\* the mounts whose group check for method no user of PolicyUsers passes
DeniedMounts(method) ==
  {i \in 1..Len(mountpoints) :
     \A u \in PolicyUsers :
       ~validateGroups(u.groups, method, mountpoints[i], strictOf(mountpoints[i]))}

\* the real path p lies below the resolved root of mount i
Below(i, p) ==
  \E u \in PolicyUsers :
    IsPrefix(getRealPath(u, mountpoints[i], mountpoints[i].root), p)

\* C26: whatever requests the users who fail a mount's group check for
\* unlink have made, every entry the mount had is still there, and whatever
\* requests the users who fail its check for writefile have made, no entry
\* of the mount has been created or overwritten
C26_MethodPolicyNotBypassed ==
  \A p \in DOMAIN fs :
    /\ \A i \in DeniedMounts("unlink") :
         (Below(i, p) /\ PolicyFs[p] # Absent) => fs[p] # Absent
    /\ \A i \in DeniedMounts("writefile") :
         (Below(i, p) /\ fs[p] # Absent) => fs[p] = PolicyFs[p]

(***************************************************************************)
(* Properties of a selection of several addresses.                         *)
(***************************************************************************)
\* the mount named by the prefix of the i-th address of the selection
OwnMount(i) == findMount(getPrefix(req.selection[i]))

\* C27: when adapter.archive is called, every address of the selection has
\* been resolved in the mount its own prefix names, and the user has passed
\* the permission check of that mount
C27_SelectionPerMount ==
  ArchiveCall =>
    \A i \in 1..Len(req.selection) :
      /\ OwnMount(i) # 0
      /\ OwnMount(i) # 0 =>
           /\ RealSelection(i) =
                getRealPath(req.options.session, mountpoints[OwnMount(i)], req.selection[i])
           /\ checkMountpointPermission(req.user.groups, "archive", ReadOnlyBool(FALSE),
                                        strictOf(mountpoints[OwnMount(i)]),
                                        mountpoints[OwnMount(i)]).ok

(***************************************************************************)
(* Confinement of the real paths.                                          *)
(***************************************************************************)
\* the real path p is the resolved root of mount i or lies beneath it
Beneath(i, p) ==
  LET root == resolveSegments(req.options.session, mountpoints[i].attributes.root)
  IN  p = root \/ IsPrefix(root \o <<"/">>, p)

\* the real path p is in a mount that an address of the request names
InNamedMount(p) ==
  \E addr \in {req.target, req.dest} :
    findMount(getPrefix(addr)) # 0 /\ Beneath(findMount(getPrefix(addr)), p)

\* C28: every real path an adapter is called with lies in the resolved root
\* of the mount that the prefix of the address names, for the single-target
\* and the cross routes and for every address of an archive selection
C28_Confinement ==
  /\ req.method # "" => \A k \in 1..Len(calls) : InNamedMount(calls[k].path)
  /\ ArchiveCall =>
       \A i \in 1..Len(req.selection) :
         OwnMount(i) # 0 /\ Beneath(OwnMount(i), RealSelection(i))

(***************************************************************************)
(* Properties of Packages.launch.                                          *)
(***************************************************************************)
\* the i-th call of launch has ended: its promise is resolved or rejected,
\* or the call threw
Settled(i) ==
  /\ i \in DOMAIN launcher.calls
  /\ launcher.calls[i].state \in {"resolved", "rejected", "threw"}

\* a launch of the package is on its way through _launch
InProgress == \E i \in DOMAIN launcher.calls : launcher.calls[i].state = "loading"

\* C30: every call of launch ends, and the name of the package is in
\* _running only while a launch of it is in progress or its application is
\* alive
C30_LaunchSettles ==
  /\ \A i \in 1..MaxLaunches : [](i \in DOMAIN launcher.calls => <>Settled(i))
  /\ [](launcher.running > 0 => InProgress \/ launcher.app = "alive")

====
